---------------------------- MODULE Spec2Model ----------------------------
(***************************************************************************)
(* Verification model of six parts of the repository:                     *)
(*                                                                         *)
(*  1. the innermost loop of the NBNxM SIMD nonbonded kernels              *)
(*     (src/unnamed/part_003, with the SIMD load/store helpers of          *)
(*     src/unnamed/part_002), specification SpecKernel;                    *)
(*  2. the PME grid halo exchange between MPI ranks                        *)
(*     (src/src/gromacs/ewald/pme_gpu_grid_sycl.cpp), specification        *)
(*     SpecHalo;                                                           *)
(*  3. the accumulation of the energies per pair of energy groups in the  *)
(*     NBNxM SIMD kernels (src/unnamed/part_002 and part_003),             *)
(*     specification SpecEnergyGroups;                                     *)
(*  4. the set-up helpers of the nonbonded benchmark                       *)
(*     (src/include/stat.h) and the decisions on which tasks run on GPUs   *)
(*     (src/src/gmxlib/maths.c);                                           *)
(*  5. the energy analysis (src/src/gromacs/energyanalysis);               *)
(*  6. the propagator of the modular simulator                             *)
(*     (src/src/gromacs/modularsimulator/propagator.cpp).                  *)
(*                                                                         *)
(* Reals are modelled by integers in fixed point.  Vectors are triples.    *)
(***************************************************************************)
EXTENDS Integers, Sequences, FiniteSets, TLC

VARIABLES
    \* ---- NBNxM kernel ----
    kv,        \* the kernel variant (the template parameters of the kernel)
    x,         \* atom coordinates (nbat x array)
    q,         \* atom charges
    ljc,       \* per-atom Lennard-Jones parameter (geometric combination)
    isPad,     \* which atom slots are cluster padding
    l_cj,      \* the j-cluster list of the i-cluster: entries [cj, excl, check]
    cjind,     \* index of the next list entry (1-based; the source is 0-based)
    f,         \* the force array
    forceIV,   \* the i-atom force accumulators forceIXV/forceIYV/forceIZV
    vctot_S,   \* Coulomb energy accumulator
    Vvdwtot_S, \* Lennard-Jones energy accumulator
    last,      \* the register contents of the last inner-loop invocation
    \* ---- PME grid halo exchange ----
    halo,      \* state of the ranks, their requests and the messages
    \* ---- energy group pair accumulation ----
    egrp,      \* energy groups of the atoms and the energy buffers
    \* ---- set-up of a run ----
    setup,     \* the options handed to a set-up function and its outcome
    \* ---- energy analysis ----
    ea,        \* the input of the energy analysis and what it has produced
    \* ---- propagator of the modular simulator ----
    propagator \* the propagator element, its threads and the state they write

kernelVars == <<kv, x, q, ljc, isPad, l_cj, cjind, f, forceIV, vctot_S, Vvdwtot_S, last>>
vars == <<kernelVars, halo, egrp, setup, ea, propagator>>

\* the variables other than those of one part of the model
exceptKernel == <<halo, egrp, setup, ea, propagator>>
exceptHalo == <<kernelVars, egrp, setup, ea, propagator>>
exceptEgrp == <<kernelVars, halo, setup, ea, propagator>>
exceptSetup == <<kernelVars, halo, egrp, ea, propagator>>
exceptEa == <<kernelVars, halo, egrp, setup, propagator>>
exceptPropagator == <<kernelVars, halo, egrp, setup, ea>>

\* a part of the model that a specification does not use
KernelUnused ==
    /\ kv = "unused" /\ x = "unused" /\ q = "unused" /\ ljc = "unused"
    /\ isPad = "unused" /\ l_cj = "unused" /\ cjind = 0 /\ f = "unused"
    /\ forceIV = "unused" /\ vctot_S = "unused" /\ Vvdwtot_S = "unused"
    /\ last = "unused"
HaloUnused == halo = "unused"
EgrpUnused == egrp = "unused"
SetupUnused == setup = "unused"
EaUnused == ea = "unused"
PropagatorUnused == propagator = "unused"

-----------------------------------------------------------------------------
(* Bounds of the model *)

\* largest coordinate of a real atom
MaxCoord == 2
\* the interaction cut-off radius; cutoffSquared is its square
Cutoff == 2

\* half the number of atoms of a cluster (the source's clusters hold 4 atoms)
HalfClusterSize == 1

\* i- and j-cluster size: the number of i-atoms and of j-atoms of a cluster pair
UNROLLI == 2 * HalfClusterSize
UNROLLJ == UNROLLI

cutoffSquared == Cutoff * Cutoff
\* the VdW cut-off is checked separately only when it is the shorter one
vdwCutoffSquared == cutoffSquared - 1

\* fixed-point scale of 1/r
InvScale == 8

ZeroVec == <<0, 0, 0>>
VecAdd(a, b) == <<a[1] + b[1], a[2] + b[2], a[3] + b[3]>>
VecSub(a, b) == <<a[1] - b[1], a[2] - b[2], a[3] - b[3]>>
VecScale(s, a) == <<s * a[1], s * a[2], s * a[3]>>

-----------------------------------------------------------------------------
(* NBNxM kernel: SIMD primitives and register layout *)

norm2(d) == d[1] * d[1] + d[2] * d[2] + d[3] * d[3]

max(a, b) == IF a >= b THEN a ELSE b

\* selectByMask(value, mask): the value where the mask is set, zero elsewhere
selectByMask(v, m) == IF m THEN v ELSE 0

\* the floor below which squared distances are not allowed to fall
\* (one unit of the integer grid: the smallest positive squared distance)
minDistanceSquared == 1

\* the value that stands for the infinity that 1/sqrt(0) yields
InvInfinity == InvScale + 1

\* invsqrt in fixed point: the largest n with (n / InvScale)^2 * rsq <= 1,
\* and infinity for rsq = 0
invsqrt(rsq) ==
    IF rsq = 0 THEN InvInfinity
    ELSE CHOOSE n \in 0..InvScale :
            /\ n * n * rsq <= InvScale * InvScale
            /\ (n + 1) * (n + 1) * rsq > InvScale * InvScale

\* number of i-registers nR of a layout
nR(layout) == IF layout = "r4xM" THEN UNROLLI ELSE UNROLLI \div 2
\* GMX_SIMD_REAL_WIDTH of a layout
SimdWidth(layout) == IF layout = "r4xM" THEN UNROLLJ ELSE 2 * UNROLLJ
Regs(layout) == 0..(nR(layout) - 1)
Lanes(layout) == 0..(SimdWidth(layout) - 1)
RegLanes(layout) == Regs(layout) \X Lanes(layout)

\* index in the i-cluster of the atom that lane l of i-register r holds:
\* 4xM broadcasts one i-atom, 2xMM holds two consecutive i-atoms in the halves
loadIAtomData(layout, r, l) ==
    IF layout = "r4xM" THEN r ELSE 2 * r + (l \div UNROLLJ)

\* index in the j-cluster of the atom that lane l holds:
\* 4xM loads the j-cluster once, 2xMM duplicates it in both halves
loadJAtomData(layout, l) ==
    IF layout = "r4xM" THEN l ELSE l % UNROLLJ

\* the bit of the exclusion mask that belongs to the pair (i, j)
ExclBit(i, j) == i * UNROLLJ + j
AllExclBits == 0..(UNROLLI * UNROLLJ - 1)

\* Interaction (non-exclusion) mask of all 1's or 0's per lane
loadSimdPairInteractionMasks(check, layout, excl) ==
    [rl \in RegLanes(layout) |->
        (~check) \/ (ExclBit(loadIAtomData(layout, rl[1], rl[2]),
                             loadJAtomData(layout, rl[2])) \in excl)]

\* DiagonalMasker::maskArray for equal i- and j-cluster size: on the
\* cluster's pair with itself only the lanes with j > i stay set
diagonalMaskerMaskArray(layout, ci_sh, cj, maskV) ==
    [rl \in RegLanes(layout) |->
        IF cj = ci_sh
        THEN maskV[rl] /\ (loadJAtomData(layout, rl[2]) > loadIAtomData(layout, rl[1], rl[2]))
        ELSE maskV[rl]]

-----------------------------------------------------------------------------
(* The Coulomb and Lennard-Jones calculators the inner loop calls.         *)
(* Toy integer coefficients stand for the reaction-field, Ewald and shift  *)
(* constants; every one of them is nonzero, as in the program.             *)

\* force * r of the electrostatics without the charge product
coulombForce(coulombType, rSquared, rInv, rInvExcl, withinCutoff) ==
    IF coulombType = "RF"
    THEN rInvExcl - 2 * rSquared
    ELSE rInvExcl - (1 + selectByMask(rSquared, withinCutoff))

\* the potential (RF or Ewald reciprocal) that is subtracted from 1/r
coulombCorrectionEnergy(coulombType, rSquared, withinCutoff) ==
    IF coulombType = "RF"
    THEN 100 - rSquared
    ELSE 70 - selectByMask(rSquared, withinCutoff)

ewaldShift == 1

\* 1/r^6 (in the model a reduced power, which keeps the integers small)
rInvSixOf(rInvSquared) == rInvSquared

\* LennardJonesCalculator::forceC6C12 with potential shift
forceC6C12(maskInteractions, rInvSquared, interact, c6, c12) ==
    LET rInvSix == IF maskInteractions
                   THEN selectByMask(rInvSixOf(rInvSquared), interact)
                   ELSE rInvSixOf(rInvSquared)
    IN  [frLJ |-> c12 * rInvSix * rInvSix - c6 * rInvSix,
         vLJ  |-> c12 * (rInvSix * rInvSix - 1) - c6 * (rInvSix - 2)]

\* addLennardJonesEwaldCorrections: the grid part of LJ-Ewald, which is
\* also computed for excluded pairs
addLennardJonesEwaldCorrections(maskInteractions, rSquared, rInvSquared, interact, withinCutoff, c6Grid, lj) ==
    LET cr2      == selectByMask(rSquared, withinCutoff)
        expmcr2  == 1
        poly     == 2 + cr2
        rInvSix  == rInvSixOf(rInvSquared)
        shMask   == IF maskInteractions THEN selectByMask(3, interact) ELSE 3
    IN  [frLJ |-> lj.frLJ + c6Grid * (rInvSix - expmcr2 * (rInvSix * poly + 1)),
         vLJ  |-> lj.vLJ + c6Grid * (rInvSix * (1 - expmcr2 * poly) + shMask)]

-----------------------------------------------------------------------------
(* NBNxM kernel: the inner loop *)

\* the i-cluster of the outer loop (no shift: ci_sh = ci)
ci == 0
NumClusters == 2
Atoms == 0..(NumClusters * UNROLLI - 1)
\* atom index of slot k of cluster c
AtomOf(c, k) == c * UNROLLI + k

c_nRLJ(v) ==
    IF v.iLJ = "None" THEN 0
    ELSE nR(v.layout) \div (IF v.iLJ = "Half" THEN 2 ELSE 1)

\* exclusion forces are computed in the loop for RF, Ewald and LJ-Ewald
c_haveExclusionForces(v, check) == (v.coulomb \/ v.ljEwald) /\ check

\* Do the cut-off check
withinCutoffCheck(rSquared) == rSquared < cutoffSquared

\* the squared distance used as computed, without the floor
clampDistance_NoClamp(rSquared) == rSquared

\* Ensure the distances do not fall below the limit where r^-12 overflows
clampDistance(rSquared) == max(rSquared, minDistanceSquared)

\* 1/r kept for pairs beyond the cut-off
maskRInv_Unmasked(rInv, withinCutoff) == rInv

\* Set rinv to zero for r beyond the cut-off
maskRInv(rInv, withinCutoff) == selectByMask(rInv, withinCutoff)

\* 1/r added for excluded atom pairs as well
rInvExclOf_Unmasked(haveExclF, rInv, interact) == rInv

\* Only add 1/r for non-excluded atom pairs
rInvExclOf(haveExclF, rInv, interact) ==
    IF haveExclF THEN selectByMask(rInv, interact) ELSE rInv

\* product of the charges of the i- and the j-atom
qqOf(qi, qj) == qi * qj

\* Mask energy for cut-off and diagonal
maskCoulombEnergy(vCoulomb, withinCutoff) == selectByMask(vCoulomb, withinCutoff)

\* The potential shift should be removed for excluded pairs
maskLJExcluded(v, check, vLJ, interact) ==
    IF v.energies /\ check THEN selectByMask(vLJ, interact) ELSE vLJ

\* The potential shift should be removed for pairs beyond cut-off
maskLJCutoff(v, vLJ, withinVdwCutoff, withinCutoff) ==
    selectByMask(vLJ, IF v.vdwCheck THEN withinVdwCutoff ELSE withinCutoff)

\* rsq = dx*dx + dy*dy + dz*dz of every lane, followed by the cut-off check
withinCutoffV0(v, e) ==
    [rl \in RegLanes(v.layout) |->
        withinCutoffCheck(norm2(VecSub(
            x[AtomOf(ci, loadIAtomData(v.layout, rl[1], rl[2]))],
            x[AtomOf(e.cj, loadJAtomData(v.layout, rl[2]))])))]

\* the cut-off mask without diagonal and exclusion handling
withinCutoffVOf_CutoffOnly(v, e, interactV) == withinCutoffV0(v, e)

\* the cut-off mask after the exclusion handling of the list entry
withinCutoffVOf(v, e, interactV) ==
    IF e.check
    THEN IF c_haveExclusionForces(v, e.check)
         \* Only remove the (sub-)diagonal to avoid double counting exclusion forces
         THEN diagonalMaskerMaskArray(v.layout, ci, e.cj, withinCutoffV0(v, e))
         \* No exclusion forces: remove all excluded atom pairs from the list
         ELSE LET w == withinCutoffV0(v, e)
              IN [rl \in RegLanes(v.layout) |-> w[rl] /\ interactV[rl]]
    ELSE withinCutoffV0(v, e)

\* distance vector, squared distance and masks of the pair in lane l of
\* register r
pairGeometry(v, e, interactV, withinCutoffV, r, l) ==
    [r |-> r, l |-> l,
     ia |-> AtomOf(ci, loadIAtomData(v.layout, r, l)),
     ja |-> AtomOf(e.cj, loadJAtomData(v.layout, l)),
     dV |-> VecSub(x[AtomOf(ci, loadIAtomData(v.layout, r, l))],
                   x[AtomOf(e.cj, loadJAtomData(v.layout, l))]),
     rSquaredRaw |-> norm2(VecSub(x[AtomOf(ci, loadIAtomData(v.layout, r, l))],
                                  x[AtomOf(e.cj, loadJAtomData(v.layout, l))])),
     interact |-> interactV[<<r, l>>],
     withinCutoff |-> withinCutoffV[<<r, l>>]]

\* the clamped squared distance, 1/r and 1/r^2 of the pair with geometry g
pairInverseDistance(g) ==
    [rSquared |-> clampDistance(g.rSquaredRaw),
     rInv |-> maskRInv(invsqrt(clampDistance(g.rSquaredRaw)), g.withinCutoff),
     rInvSquared |-> maskRInv(invsqrt(clampDistance(g.rSquaredRaw)), g.withinCutoff)
                     * maskRInv(invsqrt(clampDistance(g.rSquaredRaw)), g.withinCutoff)]

\* the correction energy subtracted without the charge product
coulombEnergy_CorrUnscaled(qq, rInvExcl, vCorr) == qq * rInvExcl - vCorr

\* the Coulomb energy of the pair: the direct term minus the correction
coulombEnergy(qq, rInvExcl, vCorr) == qq * (rInvExcl - vCorr)

\* Coulomb force and energy of the pair
coulombInteraction(v, e, g, d) ==
    LET haveExclF == c_haveExclusionForces(v, e.check)
        qq        == qqOf(q[g.ia], q[g.ja])
        rInvExcl  == rInvExclOf(haveExclF, d.rInv, g.interact)
        vCorr0    == coulombCorrectionEnergy(v.coulombType, d.rSquared, g.withinCutoff)
        vCorr     == IF v.coulombType # "RF"
                     THEN vCorr0 + (IF e.check THEN selectByMask(ewaldShift, g.interact)
                                    ELSE ewaldShift)
                     ELSE vCorr0
    IN  IF v.coulomb
        THEN [qq |-> qq, rInvExcl |-> rInvExcl, vCorr |-> vCorr,
              frCoulomb |-> qq * coulombForce(v.coulombType, d.rSquared, d.rInv,
                                              rInvExcl, g.withinCutoff),
              vCoulomb |-> IF v.energies
                           THEN maskCoulombEnergy(coulombEnergy(qq, rInvExcl, vCorr), g.withinCutoff)
                           ELSE 0]
        ELSE [qq |-> 0, rInvExcl |-> rInvExcl, vCorr |-> 0, frCoulomb |-> 0, vCoulomb |-> 0]

\* the masks that the loop applies to the LJ force and energy lj of the
\* pair, with the LJ-Ewald grid correction added after the exclusion mask
ljMasked(v, e, g, d, c6, lj) ==
    LET withinVdw == d.rSquared < vdwCutoffSquared
        vLJexcl   == maskLJExcluded(v, e.check, lj.vLJ, g.interact)
        ljEw      == IF v.ljEwald
                     THEN addLennardJonesEwaldCorrections(e.check, d.rSquared,
                              d.rInvSquared, g.interact, g.withinCutoff, c6,
                              [frLJ |-> lj.frLJ, vLJ |-> vLJexcl])
                     ELSE [frLJ |-> lj.frLJ, vLJ |-> vLJexcl]
    IN  [frLJ |-> IF v.vdwCheck THEN selectByMask(ljEw.frLJ, withinVdw) ELSE ljEw.frLJ,
         vLJdirect |-> IF v.energies
                       THEN maskLJCutoff(v, vLJexcl, withinVdw, g.withinCutoff) ELSE 0,
         vLJ |-> IF v.energies
                 THEN maskLJCutoff(v, ljEw.vLJ, withinVdw, g.withinCutoff) ELSE 0]

\* LJ force and energy of the pair; only the first c_nRLJ registers have LJ
ljInteraction(v, e, r, g, d) ==
    IF r < c_nRLJ(v)
    THEN ljMasked(v, e, g, d, ljc[g.ia].c6 * ljc[g.ja].c6,
                  forceC6C12(c_haveExclusionForces(v, e.check), d.rInvSquared,
                             g.interact, ljc[g.ia].c6 * ljc[g.ja].c6,
                             ljc[g.ia].c12 * ljc[g.ja].c12))
    ELSE [frLJ |-> 0, vLJdirect |-> 0, vLJ |-> 0]

\* the scalar force and the force vector of the pair
pairForce(g, d, c, lj) ==
    [r |-> g.r, l |-> g.l, ia |-> g.ia, ja |-> g.ja, interact |-> g.interact,
     rSquaredRaw |-> g.rSquaredRaw, rSquared |-> d.rSquared,
     withinCutoff |-> g.withinCutoff, rInv |-> d.rInv, rInvExcl |-> c.rInvExcl,
     vCoulomb |-> c.vCoulomb, vCorr |-> c.vCorr, qq |-> c.qq,
     vLJ |-> lj.vLJ, vLJdirect |-> lj.vLJdirect,
     fScalar |-> d.rInvSquared * (c.frCoulomb + lj.frLJ),
     t |-> VecScale(d.rInvSquared * (c.frCoulomb + lj.frLJ), g.dV)]

pairInteractions(v, e, r, g, d) ==
    pairForce(g, d, coulombInteraction(v, e, g, d), ljInteraction(v, e, r, g, d))

pairWithGeometry(v, e, r, g) == pairInteractions(v, e, r, g, pairInverseDistance(g))

\* the values of one lane (register r, lane l) of one inner-loop invocation
\* on list entry e, in the order in which the source computes them
LaneValues(v, e, interactV, withinCutoffV, r, l) ==
    pairWithGeometry(v, e, r, pairGeometry(v, e, interactV, withinCutoffV, r, l))

-----------------------------------------------------------------------------
(* NBNxM kernel: the inputs and the state machine *)

\* The kernel variants that are instantiated: a kernel without Coulomb
\* interactions computes LJ on all i-atoms (otherwise fScalarV would be
\* read unset), and halving the LJ registers needs an even number of them.
KernelVariants ==
    { v \in [coulomb : BOOLEAN, coulombType : {"RF", "Ewald"},
             iLJ : {"None", "Half", "All"}, energies : BOOLEAN,
             vdwCheck : BOOLEAN, ljEwald : BOOLEAN,
             layout : {"r4xM", "r2xMM"}] :
        /\ (~v.coulomb) => (v.iLJ = "All" /\ v.coulombType = "RF")
        /\ (v.iLJ = "None") => (~v.vdwCheck /\ ~v.ljEwald)
        /\ (v.iLJ = "Half") => (nR(v.layout) % 2 = 0)
        /\ nR(v.layout) >= 1 }

\* positions of real atoms, and sentinel positions of padding slots, which
\* lie at least the cut-off away from every real atom
RealPoints == {<<0, 0, 0>>, <<1, 0, 0>>, <<0, MaxCoord, 0>>}
FarCoord == -(Cutoff + 1)
FarPoints == {<<FarCoord, FarCoord, FarCoord>>, <<FarCoord, FarCoord, FarCoord - 1>>}

\* charge and LJ parameters of a real atom; a padding slot has zero weight
RealCharge(a) == IF a % 2 = 0 THEN (a \div 2) + 1 ELSE -((a \div 2) + 1)
RealLjc(a) == [c6 |-> 1 + (a % 2), c12 |-> 3 + 2 * ((a \div 2) % 2)]
PadLjc == [c6 |-> 0, c12 |-> 0]

\* the exclusion mask of the pair of the i-cluster with itself has only
\* bits of pairs with j > i; a list entry that is processed without the
\* exclusion check has all bits set
DiagBits == { ExclBit(i, j) : i \in 0..(UNROLLI - 1), j \in 0..(UNROLLJ - 1) }
             \ { b \in AllExclBits : (b % UNROLLJ) <= (b \div UNROLLJ) }
ListEntries ==
    { e \in [cj : 0..(NumClusters - 1), excl : SUBSET AllExclBits, check : BOOLEAN] :
        /\ (e.cj = ci) => (e.check /\ e.excl \subseteq DiagBits)
        /\ (~e.check) => (e.excl = AllExclBits) }

\* slot 0 of every cluster is a real atom and padding fills the tail; the
\* first atom of the i-cluster is at the origin, and a cluster that is not
\* in the list is left at a fixed place
Placements(e) ==
    { p \in [Atoms -> RealPoints \cup FarPoints] :
        /\ p[AtomOf(ci, 0)] = <<0, 0, 0>>
        /\ \A c \in 0..(NumClusters - 1) :
             /\ p[AtomOf(c, 0)] \in RealPoints
             /\ \A k \in 1..(UNROLLI - 1) :
                   (p[AtomOf(c, k - 1)] \in FarPoints) => (p[AtomOf(c, k)] \in FarPoints)
             /\ (c # ci /\ c # e.cj) =>
                   \A k \in 0..(UNROLLI - 1) : p[AtomOf(c, k)] = <<0, 0, 0>> }

\* the force that every atom holds when the kernel starts
InitialForce == <<1, 1, 1>>

InitKernel ==
    /\ kv \in KernelVariants
    /\ \E e \in ListEntries :
          /\ l_cj = <<e>>
          /\ x \in Placements(e)
    /\ isPad = [a \in Atoms |-> x[a] \in FarPoints]
    /\ q = [a \in Atoms |-> IF isPad[a] THEN 0 ELSE RealCharge(a)]
    /\ ljc = [a \in Atoms |-> IF isPad[a] THEN PadLjc ELSE RealLjc(a)]
    /\ cjind = 1
    /\ f = [a \in Atoms |-> InitialForce]
    /\ forceIV = [rl \in RegLanes(kv.layout) |-> ZeroVec]
    /\ vctot_S = [l \in Lanes(kv.layout) |-> 0]
    /\ Vvdwtot_S = [l \in Lanes(kv.layout) |-> 0]
    /\ last = [e |-> [cj |-> ci, excl |-> {}, check |-> TRUE], lanes |-> {}]
    /\ HaloUnused /\ EgrpUnused /\ SetupUnused /\ EaUnused /\ PropagatorUnused

\* the force vector, or an energy, of the lanes in the set S, summed up
RECURSIVE SumT(_)
SumT(S) ==
    IF S = {} THEN ZeroVec
    ELSE LET p == CHOOSE p \in S : TRUE IN VecAdd(p.t, SumT(S \ {p}))

RECURSIVE SumVCoulomb(_)
SumVCoulomb(S) ==
    IF S = {} THEN 0
    ELSE LET p == CHOOSE p \in S : TRUE IN p.vCoulomb + SumVCoulomb(S \ {p})

RECURSIVE SumVLJ(_)
SumVLJ(S) ==
    IF S = {} THEN 0
    ELSE LET p == CHOOSE p \in S : TRUE IN p.vLJ + SumVLJ(S \ {p})

\* only the first i-register subtracted from the j-atoms
decrementJForce_FirstRegister(fOld, lanes) ==
    [a \in Atoms |-> VecSub(fOld[a], SumT({ p \in lanes : p.ja = a /\ p.r = 0 /\ p.l < UNROLLJ }))]

\* Decrement j atom force: lane sums over the i-registers, and for 2xMM
\* the two halves of the register added, are subtracted from the j-atoms
decrementJForce(fOld, lanes) ==
    [a \in Atoms |-> VecSub(fOld[a], SumT({ p \in lanes : p.ja = a }))]

\* Increment i atom force
incrementIForce(fiOld, lanes) ==
    [rl \in DOMAIN fiOld |->
        VecAdd(fiOld[rl], SumT({ p \in lanes : p.r = rl[1] /\ p.l = rl[2] }))]

\* the lanes of one invocation of the inner loop body on list entry e
LanesOf(v, e, interactV, withinCutoffV) ==
    { LaneValues(v, e, interactV, withinCutoffV, rl[1], rl[2]) : rl \in RegLanes(v.layout) }

InnerLoopOn(v, e, interactV) ==
    LanesOf(v, e, interactV, withinCutoffVOf(v, e, interactV))

\* One invocation of the inner loop body on list entry cjind
InnerLoop ==
    /\ halo = "unused"
    /\ cjind <= Len(l_cj)
    /\ last' = [e |-> l_cj[cjind],
                lanes |-> InnerLoopOn(kv, l_cj[cjind],
                              loadSimdPairInteractionMasks(l_cj[cjind].check, kv.layout,
                                                           l_cj[cjind].excl))]
    /\ forceIV' = incrementIForce(forceIV, last'.lanes)
    /\ f' = decrementJForce(f, last'.lanes)
    /\ vctot_S' = [l \in Lanes(kv.layout) |->
                     vctot_S[l] + SumVCoulomb({ p \in last'.lanes : p.l = l })]
    /\ Vvdwtot_S' = [l \in Lanes(kv.layout) |->
                     Vvdwtot_S[l] + SumVLJ({ p \in last'.lanes : p.l = l })]
    /\ cjind' = cjind + 1
    /\ UNCHANGED <<kv, x, q, ljc, isPad, l_cj>>
    /\ UNCHANGED exceptKernel

NextKernel == InnerLoop

SpecKernel == InitKernel /\ [][NextKernel]_vars

-----------------------------------------------------------------------------
(* NBNxM kernel: properties *)

RECURSIVE SumVec(_, _)
\* sum of the vectors g[e] over the finite set S
SumVec(S, g) ==
    IF S = {} THEN ZeroVec
    ELSE LET e == CHOOSE e \in S : TRUE IN VecAdd(g[e], SumVec(S \ {e}, g))

\* the inner loop has run on a list entry
InnerLoopDone == last.lanes # {}

\* C1: every atom pair whose squared distance is at least cutoffSquared
\* contributes zero force to its i-atom and its j-atom and zero Coulomb and
\* Lennard-Jones energy, whatever its charges, types and exclusion bit, in
\* every kernel variant.
BeyondCutoffContributesNothing ==
    \A p \in last.lanes :
        (p.rSquaredRaw >= cutoffSquared) =>
            /\ p.fScalar = 0
            /\ p.t = ZeroVec
            /\ p.vCoulomb = 0
            /\ p.vLJ = 0

\* a pair of real, charged, non-excluded atoms beyond the cut-off was
\* processed by a kernel with Coulomb, LJ-Ewald and energies, next to a pair
\* that received a force
BeyondCutoffPairProcessed ==
    /\ kv.coulomb /\ kv.energies /\ kv.ljEwald
    /\ \E p \in last.lanes :
          /\ p.rSquaredRaw >= cutoffSquared
          /\ ~isPad[p.ia] /\ ~isPad[p.ja]
          /\ p.interact /\ p.qq # 0
    /\ \E p \in last.lanes : p.t # ZeroVec

\* C10: the squared distance from which 1/r is computed is never below
\* minDistanceSquared, also for coincident coordinates, so that every
\* computed 1/r is finite.
ClampedDistanceAboveFloor ==
    \A p \in last.lanes :
        /\ p.rSquared >= minDistanceSquared
        /\ p.rInv \in 0..InvScale

\* two different atoms with coincident coordinates were processed and their
\* 1/r is the one of the floor
CoincidentPairProcessed ==
    \E p \in last.lanes :
        /\ p.ia # p.ja
        /\ p.rSquaredRaw = 0
        /\ p.withinCutoff
        /\ p.rInv = invsqrt(minDistanceSquared)

\* C2: an excluded atom pair (interaction bit clear) never receives the
\* direct 1/r Coulomb term or the Lennard-Jones pair energy, also within the
\* cut-off; with exclusion forces only the correction terms remain for it
\* (the Coulomb energy is minus the charge product times the correction),
\* and without exclusion forces it contributes nothing at all.
ExcludedPairGetsOnlyCorrection ==
    \A p \in last.lanes :
        (~p.interact) =>
            /\ p.rInvExcl = 0
            /\ p.vLJdirect = 0
            /\ (~kv.ljEwald) => (p.vLJ = 0)
            /\ IF c_haveExclusionForces(kv, last.e.check)
               THEN p.vCoulomb = selectByMask(-(p.qq * p.vCorr),
                                              p.withinCutoff /\ kv.energies)
               ELSE p.fScalar = 0 /\ p.t = ZeroVec /\ p.vCoulomb = 0 /\ p.vLJ = 0

\* an excluded pair of two different real atoms within the cut-off was
\* processed with exclusion forces and energies: it received a correction
\* force and a correction energy
ExcludedPairWithinCutoffProcessed ==
    /\ c_haveExclusionForces(kv, last.e.check) /\ kv.energies
    /\ \E p \in last.lanes :
          /\ ~p.interact
          /\ p.ia # p.ja
          /\ p.rSquaredRaw < cutoffSquared
          /\ p.rInv # 0
          /\ p.t # ZeroVec
          /\ p.vCoulomb # 0

\* the atoms of the i-cluster
ClusterAtoms == { AtomOf(ci, k) : k \in 0..(UNROLLI - 1) }

\* C3: when the j-cluster is the i-cluster, the diagonal and one triangle of
\* the atom-pair matrix are masked out: no atom interacts with itself and
\* every unordered atom pair has exactly one lane that can contribute, with
\* exclusion forces (every pair within the cut-off) and without (every
\* non-excluded pair within the cut-off).
SelfPairCountedOnce ==
    (InnerLoopDone /\ last.e.cj = ci) =>
        /\ \A p \in last.lanes :
              (p.ja <= p.ia) =>
                  (~p.withinCutoff /\ p.t = ZeroVec /\ p.vCoulomb = 0 /\ p.vLJ = 0)
        /\ \A a \in ClusterAtoms : \A b \in ClusterAtoms :
              (a < b) =>
                  /\ Cardinality({ p \in last.lanes : {p.ia, p.ja} = {a, b} }) = 2
                  /\ Cardinality({ p \in last.lanes :
                                     {p.ia, p.ja} = {a, b} /\ p.withinCutoff })
                       = IF /\ norm2(VecSub(x[a], x[b])) < cutoffSquared
                            /\ \/ c_haveExclusionForces(kv, last.e.check)
                               \/ ExclBit(a - AtomOf(ci, 0), b - AtomOf(ci, 0))
                                      \in last.e.excl
                         THEN 1 ELSE 0

\* the i-cluster was processed against itself with exclusion forces and the
\* pair of two atoms above the diagonal received a force
SelfPairProcessed ==
    /\ InnerLoopDone /\ last.e.cj = ci
    /\ c_haveExclusionForces(kv, last.e.check)
    /\ \E p \in last.lanes : p.ia < p.ja /\ p.withinCutoff /\ p.t # ZeroVec
    /\ \E p \in last.lanes : p.ia = p.ja /\ p.rSquaredRaw = 0

\* the lanes whose i-atom, or whose j-atom, is atom a
LanesOfI(a) == { p \in last.lanes : p.ia = a }
LanesOfJ(a) == { p \in last.lanes : p.ja = a }

\* C4: for every atom pair processed, scalar force times displacement is
\* added exactly once to the i-atom force and subtracted exactly once from
\* the j-atom force, so one inner-loop invocation changes the force summed
\* over all atoms by zero.
ForceAddedOnceSubtractedOnce ==
    InnerLoopDone =>
        /\ \A a \in Atoms :
              /\ SumVec({ rl \in DOMAIN forceIV :
                            AtomOf(ci, loadIAtomData(kv.layout, rl[1], rl[2])) = a },
                        forceIV) = SumT(LanesOfI(a))
              /\ f[a] = VecSub(InitialForce, SumT(LanesOfJ(a)))
        /\ VecAdd(SumVec(Atoms, f), SumVec(DOMAIN forceIV, forceIV))
             = VecScale(Cardinality(Atoms), InitialForce)

\* an invocation in which a j-atom received force from two i-atoms
ForcesAccumulated ==
    /\ InnerLoopDone
    /\ \E a \in Atoms :
          /\ Cardinality({ p \in LanesOfJ(a) : p.t # ZeroVec }) >= 2
          /\ f[a] # InitialForce
    /\ \E rl \in DOMAIN forceIV : forceIV[rl] # ZeroVec

\* C9: a padding slot of a cluster never contributes a nonzero force or a
\* nonzero energy, wherever its sentinel position is, and its own force
\* stays unchanged.
PaddingContributesNothing ==
    /\ \A p \in last.lanes :
          (isPad[p.ia] \/ isPad[p.ja]) =>
              (p.t = ZeroVec /\ p.vCoulomb = 0 /\ p.vLJ = 0)
    /\ \A a \in Atoms : isPad[a] => f[a] = InitialForce

\* two padding slots at different sentinel positions within the cut-off of
\* each other, and a padding slot paired with a real atom, were processed by
\* a kernel with Coulomb interactions and energies
PaddingPairsProcessed ==
    /\ kv.coulomb /\ kv.energies
    /\ \E p \in last.lanes :
          isPad[p.ia] /\ isPad[p.ja] /\ p.withinCutoff /\ p.rSquaredRaw > 0
    /\ \E p \in last.lanes : isPad[p.ia] # isPad[p.ja]

-----------------------------------------------------------------------------
(* PME grid halo exchange: decomposition and halo sizes *)

\* largest number of domains along one dimension, and of ranks in total
MaxDomains == 3
MaxRanks == 4
\* largest number of grids that are exchanged, pmeGpu->common->ngrids, and
\* of grids that all ranks together exchange
NGrids == 2
MaxRankGrids == 4
\* width of the halo, the grid points that a chunk overlaps its neighbour
HaloWidth == 2
\* localPmeSize[ZZ]
PmeSizeZ == 2

NumRanks(h) == h.sizeX * h.sizeY
Ranks(h) == 0..(NumRanks(h) - 1)
\* the position of rank r in the decomposition, and the rank at position
\* (ix, iy): the rank in mpiComm is ix * sizeY + iy
RankX(h, r) == r \div h.sizeY
RankY(h, r) == r % h.sizeY

\* neighbours along a dimension of n domains (periodic)
ranksUp(n, i) == (i + n - 1) % n
ranksDown(n, i) == (i + 1) % n

\* width of the chunk of the grid at index i of a dimension; the chunks
\* are at least as wide as the halo
gridSizeX(ix) == HaloWidth + (ix % 2)
gridSizeY(iy) == HaloWidth + ((iy + 1) % 2)

\* haloSizeX / haloSizeY: nothing is exchanged along an undivided dimension,
\* and the halo towards up (left) is either empty on all ranks or as wide as
\* the others
haloSize(n, dir, haveUp) ==
    IF n = 1 THEN 0
    ELSE IF dir = "Up" /\ ~haveUp THEN 0
    ELSE HaloWidth

\* the values that pmeGpuGridHaloExchange reads from pmeGpu for rank r
HaloParams(h, r) ==
    [overlapX     |-> haloSize(h.sizeX, "Center", h.upHalo),
     overlapY     |-> haloSize(h.sizeY, "Center", h.leftHalo),
     overlapDown  |-> haloSize(h.sizeX, "Down", h.upHalo),
     overlapUp    |-> haloSize(h.sizeX, "Up", h.upHalo),
     overlapRight |-> haloSize(h.sizeY, "Down", h.leftHalo),
     overlapLeft  |-> haloSize(h.sizeY, "Up", h.leftHalo),
     myGridX      |-> gridSizeX(RankX(h, r)),
     myGridY      |-> gridSizeY(RankY(h, r)),
     sizeX        |-> h.sizeX,
     sizeY        |-> h.sizeY,
     down         |-> ranksDown(h.sizeX, RankX(h, r)),
     up           |-> ranksUp(h.sizeX, RankX(h, r)),
     right        |-> ranksDown(h.sizeY, RankY(h, r)),
     left         |-> ranksUp(h.sizeY, RankY(h, r)),
     myX          |-> RankX(h, r),
     myY          |-> RankY(h, r),
     pmeSizeY     |-> gridSizeY(RankY(h, r)) + haloSize(h.sizeY, "Down", h.leftHalo)
                          + haloSize(h.sizeY, "Up", h.leftHalo)]

\* the rank of mpiComm that is rank i of mpiCommX (of mpiCommY) for a rank
\* at position (myX, myY)
InCommX(p, i) == i * p.sizeY + p.myY
InCommY(p, i) == p.myX * p.sizeY + i

-----------------------------------------------------------------------------
(* PME grid halo exchange: buffers and messages *)

ExternalLayout_Transposed(p, dx, dy) ==
    [rows   |-> IF dy = "Center" THEN p.myGridY
                ELSE IF dy = "Left" THEN p.overlapLeft ELSE p.overlapRight,
     rowLen |-> IF dx = "Center" THEN p.myGridX
                ELSE IF dx = "Up" THEN p.overlapUp ELSE p.overlapDown]

\* row layout of the buffer of direction (dx, dy) that PackHaloExternal
\* writes and UnpackHaloExternal reads
ExternalLayout(p, dx, dy) ==
    [rows   |-> IF dx = "Center" THEN p.myGridX
                ELSE IF dx = "Up" THEN p.overlapUp ELSE p.overlapDown,
     rowLen |-> IF dy = "Center" THEN p.myGridY
                ELSE IF dy = "Left" THEN p.overlapLeft ELSE p.overlapRight]

\* row layout of the buffer of direction (dx, dy) that PackHaloInternal
\* writes and UnpackAndAddHaloInternal reads
InternalLayout(p, dx, dy) ==
    [rows   |-> IF dx = "Center" THEN p.myGridX ELSE p.overlapX,
     rowLen |-> IF dy = "Center" THEN p.myGridY ELSE p.overlapY]

\* rows of the real grid itself, which are localPmeSize[YY] long
GridLayout(p, rows) == [rows |-> rows, rowLen |-> p.pmeSizeY]

\* the buffers of the forward exchange: halo data is packed by
\* PackHaloExternal (sent from the grid for a slab decomposition) and
\* received data is reduced by UnpackAndAddHaloInternal
sendGridForward(p, dx, dy) ==
    IF p.sizeY = 1
    THEN [mem |-> "realGrid", dir |-> <<dx, dy>>,
          layout |-> GridLayout(p, IF dx = "Up" THEN p.overlapUp ELSE p.overlapDown)]
    ELSE [mem |-> "d_sendGrids", dir |-> <<dx, dy>>, layout |-> ExternalLayout(p, dx, dy)]

recvGridForward(p, dx, dy) ==
    [mem |-> "d_recvGrids", dir |-> <<dx, dy>>, layout |-> InternalLayout(p, dx, dy)]

\* the buffers of the reverse exchange: grid data is packed by
\* PackHaloInternal and received halo data is assigned by UnpackHaloExternal
\* (both in place in the grid for a slab decomposition)
sendGridReverse(p, dx, dy) ==
    IF p.sizeY = 1
    THEN [mem |-> "realGrid", dir |-> <<dx, dy>>, layout |-> GridLayout(p, p.overlapX)]
    ELSE [mem |-> "d_sendGrids", dir |-> <<dx, dy>>, layout |-> InternalLayout(p, dx, dy)]

recvGridReverse(p, dx, dy) ==
    IF p.sizeY = 1
    THEN [mem |-> "realGrid", dir |-> <<dx, dy>>,
          layout |-> GridLayout(p, IF dx = "Up" THEN p.overlapUp ELSE p.overlapDown)]
    ELSE [mem |-> "d_recvGrids", dir |-> <<dx, dy>>, layout |-> ExternalLayout(p, dx, dy)]

receiveAndSend_RecvFromDest(sendBuf, sendCount, dest, recvBuf, recvCount, src, tag, comm) ==
    << [kind |-> "recv", peer |-> dest, tag |-> tag, comm |-> comm,
        count |-> recvCount, buf |-> recvBuf],
       [kind |-> "send", peer |-> dest, tag |-> tag, comm |-> comm,
        count |-> sendCount, buf |-> sendBuf] >>

\* send data to dest rank and recv from src rank: MPI_Irecv, then MPI_Isend
receiveAndSend(sendBuf, sendCount, dest, recvBuf, recvCount, src, tag, comm) ==
    << [kind |-> "recv", peer |-> src, tag |-> tag, comm |-> comm,
        count |-> recvCount, buf |-> recvBuf],
       [kind |-> "send", peer |-> dest, tag |-> tag, comm |-> comm,
        count |-> sendCount, buf |-> sendBuf] >>

\* major dimension of the forward exchange
ForwardExchangeX(p) ==
    IF p.sizeX > 1
    THEN receiveAndSend(sendGridForward(p, "Down", "Center"),
                        p.overlapDown * p.myGridY * PmeSizeZ, InCommX(p, p.down),
                        recvGridForward(p, "Up", "Center"),
                        p.overlapX * p.myGridY * PmeSizeZ, InCommX(p, p.up),
                        403, "mpiCommX")
         \o (IF p.overlapUp > 0
             THEN receiveAndSend(sendGridForward(p, "Up", "Center"),
                                 p.overlapUp * p.myGridY * PmeSizeZ, InCommX(p, p.up),
                                 recvGridForward(p, "Down", "Center"),
                                 p.overlapX * p.myGridY * PmeSizeZ, InCommX(p, p.down),
                                 403, "mpiCommX")
             ELSE << >>)
    ELSE << >>

\* minor dimension of the forward exchange
ForwardExchangeY(p) ==
    IF p.sizeY > 1
    THEN receiveAndSend(sendGridForward(p, "Center", "Right"),
                        p.overlapRight * p.myGridX * PmeSizeZ, InCommY(p, p.right),
                        recvGridForward(p, "Center", "Left"),
                        p.overlapY * p.myGridX * PmeSizeZ, InCommY(p, p.left),
                        404, "mpiCommY")
         \o (IF p.overlapLeft > 0
             THEN receiveAndSend(sendGridForward(p, "Center", "Left"),
                                 p.overlapLeft * p.myGridX * PmeSizeZ, InCommY(p, p.left),
                                 recvGridForward(p, "Center", "Right"),
                                 p.overlapY * p.myGridX * PmeSizeZ, InCommY(p, p.right),
                                 404, "mpiCommY")
             ELSE << >>)
    ELSE << >>

\* the ranks of the four corners
rankUpLeft(p) == p.up * p.sizeY + p.left
rankDownLeft(p) == p.down * p.sizeY + p.left
rankUpRight(p) == p.up * p.sizeY + p.right
rankDownRight(p) == p.down * p.sizeY + p.right

\* corners of the forward exchange
ForwardExchangeCorners(p) ==
    IF p.sizeX > 1 /\ p.sizeY > 1
    THEN receiveAndSend(sendGridForward(p, "Down", "Right"),
                        p.overlapDown * p.overlapRight * PmeSizeZ, rankDownRight(p),
                        recvGridForward(p, "Up", "Left"),
                        p.overlapX * p.overlapY * PmeSizeZ, rankUpLeft(p),
                        405, "mpiComm")
         \o (IF p.overlapLeft > 0
             THEN receiveAndSend(sendGridForward(p, "Down", "Left"),
                                 p.overlapDown * p.overlapLeft * PmeSizeZ, rankDownLeft(p),
                                 recvGridForward(p, "Up", "Right"),
                                 p.overlapX * p.overlapY * PmeSizeZ, rankUpRight(p),
                                 405, "mpiComm")
             ELSE << >>)
         \o (IF p.overlapUp > 0
             THEN receiveAndSend(sendGridForward(p, "Up", "Right"),
                                 p.overlapUp * p.overlapRight * PmeSizeZ, rankUpRight(p),
                                 recvGridForward(p, "Down", "Left"),
                                 p.overlapX * p.overlapY * PmeSizeZ, rankDownLeft(p),
                                 405, "mpiComm")
             ELSE << >>)
         \o (IF p.overlapUp > 0 /\ p.overlapLeft > 0
             THEN receiveAndSend(sendGridForward(p, "Up", "Left"),
                                 p.overlapUp * p.overlapLeft * PmeSizeZ, rankUpLeft(p),
                                 recvGridForward(p, "Down", "Right"),
                                 p.overlapX * p.overlapY * PmeSizeZ, rankDownRight(p),
                                 405, "mpiComm")
             ELSE << >>)
    ELSE << >>

\* major dimension of the reverse exchange
ReverseExchangeX(p) ==
    IF p.sizeX > 1
    THEN receiveAndSend(sendGridReverse(p, "Up", "Center"),
                        p.overlapX * p.myGridY * PmeSizeZ, InCommX(p, p.up),
                        recvGridReverse(p, "Down", "Center"),
                        p.overlapDown * p.myGridY * PmeSizeZ, InCommX(p, p.down),
                        406, "mpiCommX")
         \o (IF p.overlapUp > 0
             THEN receiveAndSend(sendGridReverse(p, "Down", "Center"),
                                 p.overlapX * p.myGridY * PmeSizeZ, InCommX(p, p.down),
                                 recvGridReverse(p, "Up", "Center"),
                                 p.overlapUp * p.myGridY * PmeSizeZ, InCommX(p, p.up),
                                 406, "mpiCommX")
             ELSE << >>)
    ELSE << >>

\* minor dimension of the reverse exchange
ReverseExchangeY(p) ==
    IF p.sizeY > 1
    THEN receiveAndSend(sendGridReverse(p, "Center", "Left"),
                        p.overlapY * p.myGridX * PmeSizeZ, InCommY(p, p.left),
                        recvGridReverse(p, "Center", "Right"),
                        p.overlapRight * p.myGridX * PmeSizeZ, InCommY(p, p.right),
                        407, "mpiCommY")
         \o (IF p.overlapLeft > 0
             THEN receiveAndSend(sendGridReverse(p, "Center", "Right"),
                                 p.overlapY * p.myGridX * PmeSizeZ, InCommY(p, p.right),
                                 recvGridReverse(p, "Center", "Left"),
                                 p.overlapLeft * p.myGridX * PmeSizeZ, InCommY(p, p.left),
                                 407, "mpiCommY")
             ELSE << >>)
    ELSE << >>

\* corners of the reverse exchange
ReverseExchangeCorners(p) ==
    IF p.sizeX > 1 /\ p.sizeY > 1
    THEN receiveAndSend(sendGridReverse(p, "Up", "Left"),
                        p.overlapX * p.overlapY * PmeSizeZ, rankUpLeft(p),
                        recvGridReverse(p, "Down", "Right"),
                        p.overlapDown * p.overlapRight * PmeSizeZ, rankDownRight(p),
                        408, "mpiComm")
         \o (IF p.overlapLeft > 0
             THEN receiveAndSend(sendGridReverse(p, "Up", "Right"),
                                 p.overlapX * p.overlapY * PmeSizeZ, rankUpRight(p),
                                 recvGridReverse(p, "Down", "Left"),
                                 p.overlapDown * p.overlapLeft * PmeSizeZ, rankDownLeft(p),
                                 408, "mpiComm")
             ELSE << >>)
         \o (IF p.overlapUp > 0
             THEN receiveAndSend(sendGridReverse(p, "Down", "Left"),
                                 p.overlapX * p.overlapY * PmeSizeZ, rankDownLeft(p),
                                 recvGridReverse(p, "Up", "Right"),
                                 p.overlapUp * p.overlapRight * PmeSizeZ, rankUpRight(p),
                                 408, "mpiComm")
             ELSE << >>)
         \o (IF p.overlapUp > 0 /\ p.overlapLeft > 0
             THEN receiveAndSend(sendGridReverse(p, "Down", "Right"),
                                 p.overlapX * p.overlapY * PmeSizeZ, rankDownRight(p),
                                 recvGridReverse(p, "Up", "Left"),
                                 p.overlapUp * p.overlapLeft * PmeSizeZ, rankUpLeft(p),
                                 408, "mpiComm")
             ELSE << >>)
    ELSE << >>

-----------------------------------------------------------------------------
(* PME grid halo exchange: the exchange of every rank *)

\* the requests req[reqCount++] of one exchange of grid g
Posted(reqs, g) == [i \in DOMAIN reqs |-> [g |-> g, req |-> reqs[i]]]

\* how many of the first n requests a rank posted are of this kind, with
\* this peer, tag and communicator
CountPosted(log, n, kind, peer, tag, comm) ==
    Cardinality({ j \in 1..n : /\ log[j].req.kind = kind
                               /\ log[j].req.peer = peer
                               /\ log[j].req.tag = tag
                               /\ log[j].req.comm = comm })

\* MPI matches the k-th receive a rank posts for a source, tag and
\* communicator with the k-th send that source posts for it (messages do
\* not overtake)
OrdinalOf(h, r, i) ==
    CountPosted(h.posts[r], i, h.posts[r][i].req.kind, h.posts[r][i].req.peer,
                h.posts[r][i].req.tag, h.posts[r][i].req.comm)

OtherKind(kind) == IF kind = "recv" THEN "send" ELSE "recv"

Matched(h, r, i) ==
    /\ h.posts[r][i].req.peer \in Ranks(h)
    /\ OrdinalOf(h, r, i) <=
         CountPosted(h.posts[h.posts[r][i].req.peer], Len(h.posts[h.posts[r][i].req.peer]),
                     OtherKind(h.posts[r][i].req.kind), r,
                     h.posts[r][i].req.tag, h.posts[r][i].req.comm)

\* a receive completes when its message has arrived; a send completes when
\* its message was received, or earlier when MPI buffers it
Complete(h, r, i) ==
    IF h.posts[r][i].req.kind = "send" /\ h.eager THEN TRUE ELSE Matched(h, r, i)

\* the requests req[0..reqCount-1]
ActiveRequests(h, r) == (Len(h.posts[r]) - h.reqCount[r] + 1)..Len(h.posts[r])

\* MPI_Waitall(reqCount, req, MPI_STATUSES_IGNORE) returns
WaitallReturns_SendsOnly(h, r) ==
    \A i \in ActiveRequests(h, r) : h.posts[r][i].req.kind = "send" => Complete(h, r, i)

WaitallReturns_MajorOnly(h, r) ==
    \A i \in ActiveRequests(h, r) : h.posts[r][i].req.comm = "mpiCommX" => Complete(h, r, i)

WaitallReturns(h, r) == \A i \in ActiveRequests(h, r) : Complete(h, r, i)

ExchangeX(h, p) == IF h.phase = "forward" THEN ForwardExchangeX(p) ELSE ReverseExchangeX(p)
ExchangeY(h, p) == IF h.phase = "forward" THEN ForwardExchangeY(p) ELSE ReverseExchangeY(p)
ExchangeCorners(h, p) == IF h.phase = "forward" THEN ForwardExchangeCorners(p) ELSE ReverseExchangeCorners(p)

\* the kernel that fills the send buffers: none for a slab decomposition
PackKernel(h, g) ==
    IF h.sizeY = 1 THEN << >>
    ELSE << [kernel |-> IF h.phase = "forward" THEN "PackHaloExternal" ELSE "PackHaloInternal",
             g |-> g] >>

\* the kernel that reads the receive buffers: the reverse exchange of a slab
\* decomposition receives in place
UnpackKernel(h, g) ==
    IF h.phase = "forward" THEN << [kernel |-> "UnpackAndAddHaloInternal", g |-> g] >>
    ELSE IF h.sizeY > 1 THEN << [kernel |-> "UnpackHaloExternal", g |-> g] >>
    ELSE << >>

ReadsReceiveBuffers(k) == k.kernel \in {"UnpackAndAddHaloInternal", "UnpackHaloExternal"}

Post(h, r, reqs, next) ==
    [h EXCEPT !.posts[r] = @ \o Posted(reqs, h.grid[r]),
              !.reqCount[r] = @ + Len(reqs),
              !.pc[r] = next]

SubmitPack(r) ==
    /\ r \in Ranks(halo)
    /\ halo.pc[r] = "pack"
    /\ halo' = [halo EXCEPT !.stream[r] = @ \o PackKernel(halo, halo.grid[r]),
                            !.pc[r] = "synchronize"]
    /\ UNCHANGED exceptHalo

\* pmeStream_.synchronize()
Synchronize_NoWait(r) ==
    /\ r \in Ranks(halo)
    /\ halo.pc[r] = "synchronize"
    /\ halo' = [halo EXCEPT !.pc[r] = "exchangeX"]
    /\ UNCHANGED exceptHalo
Synchronize(r) ==
    /\ r \in Ranks(halo)
    /\ halo.pc[r] = "synchronize"
    /\ halo.stream[r] = << >>
    /\ halo' = [halo EXCEPT !.pc[r] = "exchangeX"]
    /\ UNCHANGED exceptHalo

PostExchangeX(r) ==
    /\ r \in Ranks(halo)
    /\ halo.pc[r] = "exchangeX"
    /\ halo' = Post(halo, r, ExchangeX(halo, HaloParams(halo, r)), "exchangeY")
    /\ UNCHANGED exceptHalo

PostExchangeY(r) ==
    /\ r \in Ranks(halo)
    /\ halo.pc[r] = "exchangeY"
    /\ halo' = Post(halo, r, ExchangeY(halo, HaloParams(halo, r)), "exchangeCorners")
    /\ UNCHANGED exceptHalo

PostExchangeCorners(r) ==
    /\ r \in Ranks(halo)
    /\ halo.pc[r] = "exchangeCorners"
    /\ halo' = Post(halo, r, ExchangeCorners(halo, HaloParams(halo, r)), "waitall")
    /\ UNCHANGED exceptHalo

Waitall(r) ==
    /\ r \in Ranks(halo)
    /\ halo.pc[r] = "waitall"
    /\ WaitallReturns(halo, r)
    /\ halo' = [halo EXCEPT !.reqCount[r] = 0, !.pc[r] = "unpack"]
    /\ UNCHANGED exceptHalo

SubmitUnpack(r) ==
    /\ r \in Ranks(halo)
    /\ halo.pc[r] = "unpack"
    /\ halo' = [halo EXCEPT !.stream[r] = @ \o UnpackKernel(halo, halo.grid[r]),
                            !.grid[r] = @ + 1,
                            !.pc[r] = IF halo.grid[r] + 1 < halo.ngrids THEN "pack" ELSE "done"]
    /\ UNCHANGED exceptHalo

\* the receive buffers <<x direction, y direction>> that the work item of
\* the grid cell (ix, iy) of UnpackAndAddHaloInternal adds to the cell
UnpackAndAddHaloInternal_DownUnguarded(p, ix, iy) ==
    (IF ix < p.overlapX THEN {<<"Up", "Center">>} ELSE {})
    \cup (IF ix >= p.myGridX - p.overlapX THEN {<<"Down", "Center">>} ELSE {})
    \cup (IF iy < p.overlapY THEN {<<"Center", "Left">>} ELSE {})
    \cup (IF iy >= p.myGridY - p.overlapY /\ p.overlapLeft > 0 THEN {<<"Center", "Right">>} ELSE {})
    \cup (IF ix < p.overlapX /\ iy < p.overlapY THEN {<<"Up", "Left">>} ELSE {})
    \cup (IF ix < p.overlapX /\ iy >= p.myGridY - p.overlapY /\ p.overlapLeft > 0
          THEN {<<"Up", "Right">>} ELSE {})
    \cup (IF ix >= p.myGridX - p.overlapX /\ p.overlapUp > 0 /\ iy < p.overlapY
          THEN {<<"Down", "Left">>} ELSE {})
    \cup (IF /\ ix >= p.myGridX - p.overlapX /\ p.overlapUp > 0
             /\ iy >= p.myGridY - p.overlapY /\ p.overlapLeft > 0
          THEN {<<"Down", "Right">>} ELSE {})
UnpackAndAddHaloInternal(p, ix, iy) ==
    (IF ix < p.overlapX THEN {<<"Up", "Center">>} ELSE {})
    \cup (IF ix >= p.myGridX - p.overlapX /\ p.overlapUp > 0 THEN {<<"Down", "Center">>} ELSE {})
    \cup (IF iy < p.overlapY THEN {<<"Center", "Left">>} ELSE {})
    \cup (IF iy >= p.myGridY - p.overlapY /\ p.overlapLeft > 0 THEN {<<"Center", "Right">>} ELSE {})
    \cup (IF ix < p.overlapX /\ iy < p.overlapY THEN {<<"Up", "Left">>} ELSE {})
    \cup (IF ix < p.overlapX /\ iy >= p.myGridY - p.overlapY /\ p.overlapLeft > 0
          THEN {<<"Up", "Right">>} ELSE {})
    \cup (IF ix >= p.myGridX - p.overlapX /\ p.overlapUp > 0 /\ iy < p.overlapY
          THEN {<<"Down", "Left">>} ELSE {})
    \cup (IF /\ ix >= p.myGridX - p.overlapX /\ p.overlapUp > 0
             /\ iy >= p.myGridY - p.overlapY /\ p.overlapLeft > 0
          THEN {<<"Down", "Right">>} ELSE {})

\* the buffers a kernel adds to grid g, over the work items that submit
\* launches: ix below myGridX, iy below myGridY
AddedBy(k, p) ==
    IF k.kernel = "UnpackAndAddHaloInternal"
    THEN {<<k.g, dir[1], dir[2]>> :
             dir \in UNION {UnpackAndAddHaloInternal(p, ix, iy) :
                               ix \in 0..(p.myGridX - 1), iy \in 0..(p.myGridY - 1)}}
    ELSE {}

\* the stream runs its kernels in order, whenever the device gets to them
KernelRun(r) ==
    /\ r \in Ranks(halo)
    /\ halo.stream[r] # << >>
    /\ halo' = [halo EXCEPT !.stream[r] = Tail(@),
                            !.merged[r] = IF ReadsReceiveBuffers(Head(halo.stream[r]))
                                          THEN @ \cup {Head(halo.stream[r]).g} ELSE @,
                            !.added[r] = @ \cup AddedBy(Head(halo.stream[r]), HaloParams(halo, r))]
    /\ UNCHANGED exceptHalo

\* the decompositions and numbers of grids of the model
Decompositions ==
    { d \in (1..MaxDomains) \X (1..MaxDomains) \X (1..NGrids) :
        d[1] * d[2] <= MaxRanks /\ d[1] * d[2] * d[3] <= MaxRankGrids }

\* every rank at the start of the exchange of its first grid: the stream
\* holds the kernel that produces the grids (the spread before the forward
\* exchange, the conversion of the FFT grid to the PME grid before the
\* reverse exchange)
HaloStart(d, phase, eager, upHalo, leftHalo) ==
    [sizeX |-> d[1], sizeY |-> d[2], ngrids |-> d[3], phase |-> phase, eager |-> eager,
     upHalo |-> upHalo, leftHalo |-> leftHalo,
     pc |-> [r \in 0..(d[1] * d[2] - 1) |-> "pack"],
     grid |-> [r \in 0..(d[1] * d[2] - 1) |-> 0],
     posts |-> [r \in 0..(d[1] * d[2] - 1) |-> << >>],
     reqCount |-> [r \in 0..(d[1] * d[2] - 1) |-> 0],
     stream |-> [r \in 0..(d[1] * d[2] - 1) |->
                   << [kernel |-> IF phase = "forward" THEN "spread" ELSE "fftToPmeGrid", g |-> 0] >>],
     merged |-> [r \in 0..(d[1] * d[2] - 1) |-> {}],
     added |-> [r \in 0..(d[1] * d[2] - 1) |-> {}]]

InitHalo ==
    /\ \E d \in Decompositions, phase \in {"forward", "reverse"}, eager, upHalo, leftHalo \in BOOLEAN :
          /\ d[1] = 1 => ~upHalo
          /\ d[2] = 1 => ~leftHalo
          /\ halo = HaloStart(d, phase, eager, upHalo, leftHalo)
    /\ KernelUnused /\ EgrpUnused /\ SetupUnused /\ EaUnused /\ PropagatorUnused

NextHalo ==
    \E r \in 0..(MaxRanks - 1) :
       \/ SubmitPack(r)
       \/ Synchronize(r)
       \/ PostExchangeX(r)
       \/ PostExchangeY(r)
       \/ PostExchangeCorners(r)
       \/ Waitall(r)
       \/ SubmitUnpack(r)
       \/ KernelRun(r)

SpecHalo == InitHalo /\ [][NextHalo]_vars

-----------------------------------------------------------------------------
(* PME grid halo exchange: properties *)

\* the requests a rank posted for grid g
RequestsOfGrid(h, r, g) == { i \in 1..Len(h.posts[r]) : h.posts[r][i].g = g }

\* the rank has posted every request of grid g
FinishedPosting(h, r, g) ==
    \/ h.grid[r] > g
    \/ h.grid[r] = g /\ h.pc[r] \in {"waitall", "unpack"}

\* the kernels of a stream that read the receive buffers
ReadingKernels(h, r) ==
    { k \in 1..Len(h.stream[r]) : ReadsReceiveBuffers(h.stream[r][k]) }

\* C5: in the forward and the reverse exchange, while a reduce or unpack
\* kernel is in the stream, and once it has read the receive buffers,
\* MPI_Waitall has returned on that rank (no request is active) and every
\* send and every receive the rank posted for that grid is complete.
NoReadBeforeWaitall ==
    \A r \in Ranks(halo) :
       /\ \A k \in ReadingKernels(halo, r) :
             /\ halo.reqCount[r] = 0
             /\ \A i \in RequestsOfGrid(halo, r, halo.stream[r][k].g) : Complete(halo, r, i)
       /\ \A g \in halo.merged[r] :
             \A i \in RequestsOfGrid(halo, r, g) : Complete(halo, r, i)

\* a rank has submitted its reduce or unpack kernel after a real exchange
\* while another rank still waits
UnpackSubmittedWhilePeerWaits ==
    \E r, r2 \in Ranks(halo) :
       /\ ReadingKernels(halo, r) # {}
       /\ halo.posts[r] # << >>
       /\ halo.pc[r2] = "waitall"

\* C6 as stated: a rank initiates a message of the minor dimension or of
\* the corners of a grid only after the exchange of the major dimension of
\* that grid was received and merged into the grid.
AxisMergedBeforeOrthogonalAxis ==
    \A r \in Ranks(halo) : \A i \in 1..Len(halo.posts[r]) :
       (halo.sizeX > 1 /\ halo.posts[r][i].req.comm # "mpiCommX")
          => halo.posts[r][i].g \in halo.merged[r]

\* the requests of all three exchanges of one grid
AllExchanges(h, r) ==
    ExchangeX(h, HaloParams(h, r)) \o ExchangeY(h, HaloParams(h, r))
       \o ExchangeCorners(h, HaloParams(h, r))

\* C6 (amended): the messages of the major dimension, of the minor dimension
\* and of the corners of a grid are all initiated before any received data
\* of that grid is merged, and data is merged into the grid only after every
\* message of all three exchanges of that grid has completed.
MergedAfterAllExchanges ==
    \A r \in Ranks(halo) :
       /\ halo.pc[r] \in {"exchangeX", "exchangeY", "exchangeCorners", "waitall"}
             => halo.grid[r] \notin halo.merged[r]
       /\ \A g \in halo.merged[r] :
             /\ [i \in 1..Len(AllExchanges(halo, r)) |->
                   halo.posts[r][g * Len(AllExchanges(halo, r)) + i].req] = AllExchanges(halo, r)
             /\ \A i \in RequestsOfGrid(halo, r, g) : Complete(halo, r, i)

\* a rank of a decomposition in both dimensions has merged a grid
PencilGridMerged ==
    /\ halo.sizeX > 1 /\ halo.sizeY > 1
    /\ \E r \in Ranks(halo) : halo.merged[r] # {}

\* the request of the peer that MPI matches with request i of rank r
MatchOf(h, r, i) ==
    CHOOSE j \in 1..Len(h.posts[h.posts[r][i].req.peer]) :
       /\ h.posts[h.posts[r][i].req.peer][j].req.kind = OtherKind(h.posts[r][i].req.kind)
       /\ h.posts[h.posts[r][i].req.peer][j].req.peer = r
       /\ h.posts[h.posts[r][i].req.peer][j].req.tag = h.posts[r][i].req.tag
       /\ h.posts[h.posts[r][i].req.peer][j].req.comm = h.posts[r][i].req.comm
       /\ OrdinalOf(h, h.posts[r][i].req.peer, j) = OrdinalOf(h, r, i)

\* C7: for every decomposition, with equal or different numbers of domains
\* and with two domains along a dimension, once the destination rank has
\* posted its requests of a grid, every send (and every receive) a rank
\* posted for that grid is matched by a request of the peer with the same
\* tag and communicator that belongs to the same grid, so MPI_Waitall
\* returns on a rank once all ranks have posted their requests.
EverySendMatchedAndWaitallReturns ==
    \A r \in Ranks(halo) :
       /\ \A i \in 1..Len(halo.posts[r]) :
             /\ halo.posts[r][i].req.peer \in Ranks(halo)
             /\ FinishedPosting(halo, halo.posts[r][i].req.peer, halo.posts[r][i].g)
                   => /\ Matched(halo, r, i)
                      /\ halo.posts[halo.posts[r][i].req.peer][MatchOf(halo, r, i)].g
                            = halo.posts[r][i].g
       /\ (halo.pc[r] = "waitall"
             /\ \A r2 \in Ranks(halo) : FinishedPosting(halo, r2, halo.grid[r]))
          => \A i \in ActiveRequests(halo, r) : Matched(halo, r, i)

\* every rank of a decomposition into two domains along the major dimension,
\* where the up and the down neighbour are the same rank, has finished both
\* exchanges with sends that complete only when they are received
TwoDomainExchangeDone ==
    /\ halo.sizeX = 2 /\ halo.upHalo /\ ~halo.eager
    /\ \A r \in Ranks(halo) : halo.pc[r] = "done" /\ halo.posts[r] # << >>

OppositeDirection(d) ==
    IF d = "Up" THEN "Down" ELSE IF d = "Down" THEN "Up"
    ELSE IF d = "Left" THEN "Right" ELSE IF d = "Right" THEN "Left" ELSE "Center"

\* C8: every message a rank sends carries exactly as many elements, in rows
\* of the same number and length, as the receive the neighbour posts for
\* the opposite direction, and both counts are the sizes of the buffers
\* that the pack and unpack kernels write and read.
SentSlabMatchesReceivedSlab ==
    \A r \in Ranks(halo) : \A i \in 1..Len(halo.posts[r]) :
       (halo.posts[r][i].req.kind = "send" /\ Matched(halo, r, i)) =>
          /\ halo.posts[halo.posts[r][i].req.peer][MatchOf(halo, r, i)].req.count
                = halo.posts[r][i].req.count
          /\ halo.posts[halo.posts[r][i].req.peer][MatchOf(halo, r, i)].req.buf.layout
                = halo.posts[r][i].req.buf.layout
          /\ halo.posts[r][i].req.count
                = halo.posts[r][i].req.buf.layout.rows
                     * halo.posts[r][i].req.buf.layout.rowLen * PmeSizeZ
          /\ halo.posts[halo.posts[r][i].req.peer][MatchOf(halo, r, i)].req.buf.dir
                = << OppositeDirection(halo.posts[r][i].req.buf.dir[1]),
                     OppositeDirection(halo.posts[r][i].req.buf.dir[2]) >>

\* a corner message and a message of each dimension of a decomposition in
\* both dimensions have been received
PencilMessagesMatched ==
    /\ halo.sizeX > 1 /\ halo.sizeY > 1
    /\ \E r \in Ranks(halo) :
          \A comm \in {"mpiCommX", "mpiCommY", "mpiComm"} :
             \E i \in 1..Len(halo.posts[r]) :
                /\ halo.posts[r][i].req.kind = "send"
                /\ halo.posts[r][i].req.comm = comm
                /\ Matched(halo, r, i)

\* the kernel writes the data that is sent for grid g: the packing kernel
\* of the grid, or the kernel that produces the grids
WritesSendData(k, g) ==
    \/ k.kernel \in {"PackHaloExternal", "PackHaloInternal"} /\ k.g = g
    \/ k.kernel \in {"spread", "fftToPmeGrid"}

\* C19: a rank has posted no send or receive of a grid while the packing
\* kernel of that grid, or (slab decomposition) the preceding spread or
\* conversion of the FFT grid, is still in the device stream: the stream was
\* synchronized between the submission of that kernel and the first post.
NoPostBeforeStreamSynchronized ==
    \A r \in Ranks(halo) : \A g \in 0..(halo.ngrids - 1) :
       (\E k \in 1..Len(halo.stream[r]) : WritesSendData(halo.stream[r][k], g))
          => RequestsOfGrid(halo, r, g) = {}

\* a rank that packs its halo has posted the requests of its second grid
\* and its stream is empty
PostedSecondGridAfterPacking ==
    \E r \in Ranks(halo) :
       /\ halo.ngrids > 1
       /\ halo.sizeY > 1
       /\ RequestsOfGrid(halo, r, 1) # {}
       /\ halo.stream[r] = << >>

-----------------------------------------------------------------------------
(* PME grid halo exchange: failing MPI calls *)

\* the number of MPI calls that fail in one run
MaxFailures == 1

\* the error handler of the communicators, which the exchange does not set
ErrorHandlers == {"MPI_ERRORS_ARE_FATAL", "MPI_ERRORS_RETURN"}

\* the requests of the exchange that rank r is about to post
ExchangeAt(h, r) ==
    IF h.pc[r] = "exchangeX" THEN ExchangeX(h, HaloParams(h, r))
    ELSE IF h.pc[r] = "exchangeY" THEN ExchangeY(h, HaloParams(h, r))
    ELSE IF h.pc[r] = "exchangeCorners" THEN ExchangeCorners(h, HaloParams(h, r))
    ELSE << >>

NextStep(pc) ==
    IF pc = "exchangeX" THEN "exchangeY"
    ELSE IF pc = "exchangeY" THEN "exchangeCorners"
    ELSE IF pc = "exchangeCorners" THEN "waitall" ELSE "unpack"

\* the last MPI_Isend of an exchange, or MPI_Waitall, fails on rank r: MPI
\* aborts the run, or the call returns an error code; receiveAndSend and the
\* exchange discard the return values of MPI_Irecv, MPI_Isend and MPI_Waitall
MpiCallFails(r) ==
    /\ r \in Ranks(halo)
    /\ Cardinality({r2 \in Ranks(halo) : halo.failed[r2]}) < MaxFailures
    /\ \/ halo.pc[r] = "waitall"
       \/ ExchangeAt(halo, r) # << >>
    /\ \/ /\ halo.errhandler = "MPI_ERRORS_ARE_FATAL"
          /\ halo' = [halo EXCEPT !.failed[r] = TRUE,
                                  !.pc = [r2 \in Ranks(halo) |-> "aborted"]]
       \/ /\ halo.errhandler = "MPI_ERRORS_RETURN"
          /\ halo.pc[r] = "waitall"
          /\ halo' = [halo EXCEPT !.failed[r] = TRUE, !.reqCount[r] = 0, !.pc[r] = "unpack"]
       \/ /\ halo.errhandler = "MPI_ERRORS_RETURN"
          /\ halo.pc[r] # "waitall"
          /\ halo' = [Post(halo, r, SubSeq(ExchangeAt(halo, r), 1, Len(ExchangeAt(halo, r)) - 1),
                           NextStep(halo.pc[r]))
                         EXCEPT !.failed[r] = TRUE]
    /\ UNCHANGED exceptHalo

InitHaloFailure ==
    /\ \E d \in Decompositions, phase \in {"forward", "reverse"}, upHalo, leftHalo \in BOOLEAN :
       \E errhandler \in ErrorHandlers :
          /\ d[3] = 1
          /\ d[1] = 1 => ~upHalo
          /\ d[2] = 1 => ~leftHalo
          /\ halo = [errhandler |-> errhandler, failed |-> [r \in 0..(d[1] * d[2] - 1) |-> FALSE]]
                       @@ HaloStart(d, phase, FALSE, upHalo, leftHalo)
    /\ KernelUnused /\ EgrpUnused /\ SetupUnused /\ EaUnused /\ PropagatorUnused

NextHaloFailure ==
    \E r \in 0..(MaxRanks - 1) :
       \/ SubmitPack(r)
       \/ Synchronize(r)
       \/ PostExchangeX(r)
       \/ PostExchangeY(r)
       \/ PostExchangeCorners(r)
       \/ Waitall(r)
       \/ SubmitUnpack(r)
       \/ KernelRun(r)
       \/ MpiCallFails(r)

SpecHaloFailure == InitHaloFailure /\ [][NextHaloFailure]_vars

\* C12: a failed MPI send, receive or wait of the halo exchange terminates
\* the run; the rank does not go on to wait for, unpack or reduce the halo
\* buffers after the failure.
FailedMpiCallIsFatal ==
    \A r \in Ranks(halo) : halo.failed[r] => halo.pc[r] = "aborted"

-----------------------------------------------------------------------------
(* Energy group pair accumulation: layout of the energy buffers *)

\* number of atoms of an i-cluster
c_nbnxnCpuIClusterSize == 4
\* number of energy groups, nbatParams.nenergrp
NumEnergyGroups == 2
\* number of i-size clusters of atoms
NumEgrpClusters == 2

EnergyGroups == 0..(NumEnergyGroups - 1)
EgrpAtoms == 0..(NumEgrpClusters * c_nbnxnCpuIClusterSize - 1)

\* nbatParams.neg_2log: the number of bits of a group index
neg_2log == CHOOSE n \in 0..NumEnergyGroups : 2^n >= NumEnergyGroups /\ (n = 0 \/ 2^(n - 1) < NumEnergyGroups)

\* x >> n and x & ((1 << n) - 1) on non-negative integers
ShiftRight(v, n) == v \div 2^n
LowBits(v, n) == v % 2^n

\* the kernel layouts and SIMD widths (GMX_SIMD_REAL_WIDTH) of the model
EgrpKernels ==
    { [layout |-> "r4xM", width |-> 2], [layout |-> "r4xM", width |-> 4],
      [layout |-> "r4xM", width |-> 8], [layout |-> "r2xMM", width |-> 8] }

\* the j-cluster size: a register of the 2xMM layout holds two i-atoms
EgrpUnrollJ(k) == IF k.layout = "r4xM" THEN k.width ELSE k.width \div 2
\* the number of registers nR that hold the i-atoms
EgrpNumRegisters(k) == IF k.layout = "r4xM" THEN c_nbnxnCpuIClusterSize ELSE c_nbnxnCpuIClusterSize \div 2

\* nbatParams.energrp[c]: the group indices of the atoms of i-size cluster c,
\* neg_2log bits each
RECURSIVE PackGroups(_, _, _)
PackGroups(group, c, n) ==
    IF n = 0 THEN 0
    ELSE PackGroups(group, c, n - 1)
         + group[c * c_nbnxnCpuIClusterSize + n - 1] * 2^((n - 1) * neg_2log)

energrp(group, c) == PackGroups(group, c, c_nbnxnCpuIClusterSize)

egps_ishift == neg_2log
egps_jshift == 2 * neg_2log
egps_jstride(k) == (EgrpUnrollJ(k) \div 2) * EgrpUnrollJ(k)
Vstride_i(k) == NumEnergyGroups * 2^neg_2log * egps_jstride(k)
EgrpBufferSize(k) == NumEnergyGroups * Vstride_i(k)

\* vctp[ia], vvdwtp[ia]: the start of the buffers of the group of i-atom ia
groupBufferOf(k, group, icl, ia) ==
    LowBits(ShiftRight(energrp(group, icl), ia * egps_ishift), egps_ishift) * Vstride_i(k)

\* egp_jj: the buffer offsets of the pairs of j-atoms of j-cluster cj, an
\* array of UNROLLJ / 2 entries
egp_jj(k, group, cj) ==
    IF EgrpUnrollJ(k) = 2
    THEN [jj \in {0} |->
            LowBits(ShiftRight(energrp(group, cj \div 2), (cj % 2) * egps_jshift), egps_jshift)
               * egps_jstride(k)]
    ELSE [n \in 0..(EgrpUnrollJ(k) \div 2 - 1) |->
            LowBits(ShiftRight(energrp(group,
                                       cj * (EgrpUnrollJ(k) \div c_nbnxnCpuIClusterSize)
                                          + (n \div (c_nbnxnCpuIClusterSize \div 2))),
                               (n % (c_nbnxnCpuIClusterSize \div 2)) * egps_jshift),
                    egps_jshift)
               * egps_jstride(k)]

\* offset_jj[jj]: an index past the end of the array reads whatever the
\* memory behind it holds
offsetRead(offset_jj, behind, jj) ==
    IF jj \in DOMAIN offset_jj THEN offset_jj[jj] ELSE behind[jj]

-----------------------------------------------------------------------------
(* Energy group pair accumulation: the inner loop and the reduction *)

\* the pair energies that register i holds: lane l is the pair of i-atom ia
\* of the i-cluster and atom ja
egrpEnergies(k, cj, i) ==
    [l \in 0..(k.width - 1) |->
        IF k.layout = "r4xM"
        THEN [ia |-> i, ja |-> cj * EgrpUnrollJ(k) + l]
        ELSE [ia |-> 2 * i + (l \div (k.width \div 2)),
              ja |-> cj * EgrpUnrollJ(k) + (l % (k.width \div 2))]]

\* the additions to buffer elements, as pairs of an address and the energy
\* added, that one call for the 4xM layout makes
accumulateGroupPairEnergies4xM(k, energies, groupPairEnergyBuffersPtr, offset_jj, behind) ==
    { << groupPairEnergyBuffersPtr + offsetRead(offset_jj, behind, jl[1])
            + jl[1] * k.width + jl[2],
         [ia |-> energies[jl[2]].ia, ja |-> energies[jl[2]].ja, jj |-> jl[1]] >> :
      jl \in (0..(k.width \div 2 - 1)) \X (0..(k.width - 1)) }

\* the same for the 2xMM layout: incrDualHsimd adds the lower half of the
\* register to the first buffer and the upper half to the second
accumulateGroupPairEnergies2xMM(k, energies, groupPairEnergyBuffersPtr0, groupPairEnergyBuffersPtr1, offset_jj, behind) ==
    { << (IF jl[2] < k.width \div 2 THEN groupPairEnergyBuffersPtr0
                                     ELSE groupPairEnergyBuffersPtr1)
            + offsetRead(offset_jj, behind, jl[1])
            + jl[1] * (k.width \div 2) + (jl[2] % (k.width \div 2)),
         [ia |-> energies[jl[2]].ia, ja |-> energies[jl[2]].ja, jj |-> jl[1]] >> :
      jl \in (0..(k.width \div 2 - 1)) \X (0..(k.width - 1)) }

\* the additions of the energies of registers 0..n-1 to the buffers
accumulateRegisters(e, n) ==
    UNION { IF e.k.layout = "r2xMM"
            THEN accumulateGroupPairEnergies2xMM(e.k, egrpEnergies(e.k, e.cj, i),
                    groupBufferOf(e.k, e.group, ci, 2 * i),
                    groupBufferOf(e.k, e.group, ci, 2 * i + 1),
                    egp_jj(e.k, e.group, e.cj), e.behind)
            ELSE accumulateGroupPairEnergies4xM(e.k, egrpEnergies(e.k, e.cj, i),
                    groupBufferOf(e.k, e.group, ci, i),
                    egp_jj(e.k, e.group, e.cj), e.behind) :
            i \in 0..(n - 1) }

\* a buffer after the additions; an element holds the energies added to it
storeAdditions(buf, additions) ==
    [a \in DOMAIN buf |-> buf[a] \cup { w[2] : w \in { v \in additions : v[1] = a } }]

\* the number of registers with Lennard-Jones energies, c_nRLJ
egrpNumRegistersLJ(e) ==
    IF e.halfLJ THEN EgrpNumRegisters(e.k) \div 2 ELSE EgrpNumRegisters(e.k)

\* the inner loop adds the energies of one cluster pair to the buffers
AccumulateEnergies ==
    /\ egrp.pc = "inner"
    /\ egrp' = [egrp EXCEPT
          !.Vc = storeAdditions(@, accumulateRegisters(egrp, EgrpNumRegisters(egrp.k))),
          !.Vvdw = storeAdditions(@, accumulateRegisters(egrp, egrpNumRegistersLJ(egrp))),
          !.outside = \E w \in accumulateRegisters(egrp, EgrpNumRegisters(egrp.k)) :
                         w[1] \notin DOMAIN egrp.Vc,
          !.offsetIndices = { w[2].jj : w \in accumulateRegisters(egrp, EgrpNumRegisters(egrp.k)) },
          !.pc = "reduce"]
    /\ UNCHANGED exceptEgrp

\* the energies of a pair of an i-group and a j-group, summed over the
\* buffer elements of the pairs of j-atoms
reduceGroupEnergySimdBuffers(k, VS) ==
    [gp \in EnergyGroups \X EnergyGroups |->
        UNION { VS[((gp[1] * NumEnergyGroups + j1s[1]) * 2^neg_2log + gp[2]) * egps_jstride(k)
                     + j1s[2] * (EgrpUnrollJ(k) + 2)] : j1s \in EnergyGroups \X (0..(EgrpUnrollJ(k) \div 2 - 1)) }
        \cup
        UNION { VS[((gp[1] * NumEnergyGroups + gp[2]) * 2^neg_2log + j0s[1]) * egps_jstride(k)
                     + j0s[2] * (EgrpUnrollJ(k) + 2) + 1] : j0s \in EnergyGroups \X (0..(EgrpUnrollJ(k) \div 2 - 1)) }]

ReduceEnergies ==
    /\ egrp.pc = "reduce"
    /\ egrp' = [egrp EXCEPT !.VcSum = reduceGroupEnergySimdBuffers(egrp.k, egrp.Vc),
                            !.VvdwSum = reduceGroupEnergySimdBuffers(egrp.k, egrp.Vvdw),
                            !.pc = "done"]
    /\ UNCHANGED exceptEgrp

\* what the memory behind a stack array may hold: the smallest and the
\* largest offset the array itself can hold
GarbageOffsets(k) == {0, (2^egps_jshift - 1) * egps_jstride(k)}

InitEnergyGroups ==
    /\ \E k \in EgrpKernels, halfLJ \in BOOLEAN, group \in [EgrpAtoms -> EnergyGroups] :
        \E cj \in 0..((NumEgrpClusters * c_nbnxnCpuIClusterSize) \div EgrpUnrollJ(k) - 1) :
        \E behind \in [(0..(k.width \div 2 - 1)) \ (0..(EgrpUnrollJ(k) \div 2 - 1)) -> GarbageOffsets(k)] :
           egrp = [k |-> k, halfLJ |-> halfLJ, group |-> group, cj |-> cj, behind |-> behind,
                   pc |-> "inner",
                   Vc |-> [a \in 0..(EgrpBufferSize(k) - 1) |-> {}],
                   Vvdw |-> [a \in 0..(EgrpBufferSize(k) - 1) |-> {}],
                   outside |-> FALSE,
                   offsetIndices |-> {},
                   VcSum |-> [gp \in EnergyGroups \X EnergyGroups |-> {}],
                   VvdwSum |-> [gp \in EnergyGroups \X EnergyGroups |-> {}]]
    /\ KernelUnused /\ HaloUnused /\ SetupUnused /\ EaUnused /\ PropagatorUnused

NextEnergyGroups == AccumulateEnergies \/ ReduceEnergies

SpecEnergyGroups == InitEnergyGroups /\ [][NextEnergyGroups]_vars

-----------------------------------------------------------------------------
(* Energy group pair accumulation: properties *)

\* the atom pairs whose energy a reduced buffer holds
EgrpPairsOf(S) == { <<c.ia, c.ja>> : c \in S }

\* the atom pairs of the i-atoms of the first n registers with the atoms of
\* the j-cluster that belong to the pair gp of an i-group and a j-group
EgrpPairsOfGroups(e, gp, n) ==
    { p \in (0..((IF e.k.layout = "r4xM" THEN n ELSE 2 * n) - 1))
               \X ((e.cj * EgrpUnrollJ(e.k))..((e.cj + 1) * EgrpUnrollJ(e.k) - 1)) :
        /\ e.group[ci * c_nbnxnCpuIClusterSize + p[1]] = gp[1]
        /\ e.group[p[2]] = gp[2] }

\* a reduced buffer holds the energy of each pair of its groups once and
\* the energy of no other pair
EgrpBinned(sums, e, n) ==
    \A gp \in EnergyGroups \X EnergyGroups :
       /\ EgrpPairsOf(sums[gp]) = EgrpPairsOfGroups(e, gp, n)
       /\ Cardinality(sums[gp]) = Cardinality(EgrpPairsOfGroups(e, gp, n))

\* C11: with multiple energy groups, the Coulomb and the Lennard-Jones
\* energy of each atom pair is added to the buffer of the energy group of
\* its i-atom and the energy group of its j-atom, once, and to the buffer of
\* no other pair of groups, and no addition falls outside the buffers.
PairEnergyInItsGroupPairOnly ==
    egrp.pc = "done" =>
       /\ EgrpBinned(egrp.VcSum, egrp, EgrpNumRegisters(egrp.k))
       /\ EgrpBinned(egrp.VvdwSum, egrp, egrpNumRegistersLJ(egrp))
       /\ ~egrp.outside

\* C21: in both kernel layouts the loop index used on offset_jj in the
\* energy-group accumulation stays below the number of entries of the egp_jj
\* array, UNROLLJ / 2, that the inner loop has filled and passes in.
OffsetIndexBelowFilledEntries ==
    \A jj \in egrp.offsetIndices : jj < EgrpUnrollJ(egrp.k) \div 2

-----------------------------------------------------------------------------
(* Set-up helpers of the nonbonded benchmark (src/include/stat.h) *)

\* the enumerations of the options, in the order of their values
SimdKernels == <<"SimdAuto", "SimdNo", "Simd4XM", "Simd2XMM", "Count">>
CoulombType == <<"Pme", "Cutoff", "ReactionField", "Count">>
CombinationRule == <<"Geometric", "LorentzBerthelot", "None", "Count">>

\* static_cast<int> of an enumerator
EnumInt(enum, e) == (CHOOSE i \in 1..Len(enum) : enum[i] = e) - 1

\* Nbnxm::KernelType + 1 matches SimdKernels
translateBenchmarkEnum(kernel) ==
    <<"NotSet", "Cpu4x4_PlainC", "Cpu4xN_Simd_4xN", "Cpu4xN_Simd_2xNN">>[EnumInt(SimdKernels, kernel) + 1]

\* the exception checkKernelSetup throws, or "none"
checkKernelSetup(build, nbnxmSimd) ==
    IF EnumInt(SimdKernels, nbnxmSimd) >= EnumInt(SimdKernels, "Count") \/ nbnxmSimd = "SimdAuto"
    THEN "Need a valid kernel SIMD type"
    ELSE IF \/ (nbnxmSimd # "SimdNo" /\ ~build.GMX_SIMD)
            \/ (~build.GMX_NBNXN_SIMD_4XN /\ nbnxmSimd = "Simd4XM")
            \/ (~build.GMX_NBNXN_SIMD_2XNN /\ nbnxmSimd = "Simd2XMM")
    THEN "The requested SIMD kernel was not set up at configuration time"
    ELSE "none"

\* the kernel set-up, or the exception, of createKernelSetupCPU
createKernelSetupCPU(build, options) ==
    IF checkKernelSetup(build, options.nbnxmSimd) # "none"
    THEN [error |-> checkKernelSetup(build, options.nbnxmSimd)]
    ELSE [error |-> "none",
          kernelType |-> translateBenchmarkEnum(options.nbnxmSimd),
          ewaldExclusionType |->
             IF translateBenchmarkEnum(options.nbnxmSimd) = "Cpu4x4_PlainC" THEN "Table"
             ELSE IF options.useTabulatedEwaldCorr THEN "Table" ELSE "Analytical"]

\* the interaction constants, or the exception, of createInteractionConst
createInteractionConst(options) ==
    IF options.coulombType = "Count"
    THEN [error |-> "Unsupported electrostatic interaction"]
    ELSE IF options.coulombType = "Pme" /\ ~options.ewaldCoeffPositive
    THEN [error |-> "Ewald coefficient should be > 0"]
    ELSE [error |-> "none",
          eeltype |-> IF options.coulombType = "Pme" THEN "Pme"
                      ELSE IF options.coulombType = "Cutoff" THEN "Cut" ELSE "RF"]

\* the nonbonded object, or the exception, of createNbnxmCPU; the
\* combination rule reaches the atom data as the integer of the option
createNbnxmCPU(build, options) ==
    IF createKernelSetupCPU(build, options).error # "none"
    THEN [error |-> createKernelSetupCPU(build, options).error]
    ELSE [error |-> "none",
          kernelSetup |-> createKernelSetupCPU(build, options),
          atomData |-> [combinationRule |-> EnumInt(CombinationRule, options.ljCombinationRule)]]

\* the set-up after the call of a function: an exception ends the set-up
AfterCall(fn, result) ==
    [setup EXCEPT !.made = (fn :> result) @@ setup.made, !.error = result.error]

CreateKernelSetupCPU ==
    /\ setup.error = "none"
    /\ "createKernelSetupCPU" \notin DOMAIN setup.made
    /\ setup' = AfterCall("createKernelSetupCPU", createKernelSetupCPU(setup.build, setup.options))
    /\ UNCHANGED exceptSetup

CreateInteractionConst ==
    /\ setup.error = "none"
    /\ "createInteractionConst" \notin DOMAIN setup.made
    /\ setup' = AfterCall("createInteractionConst", createInteractionConst(setup.options))
    /\ UNCHANGED exceptSetup

CreateNbnxmCPU ==
    /\ setup.error = "none"
    /\ "createNbnxmCPU" \notin DOMAIN setup.made
    /\ setup' = AfterCall("createNbnxmCPU", createNbnxmCPU(setup.build, setup.options))
    /\ UNCHANGED exceptSetup

InitNonbondedSetup ==
    /\ \E nbnxmSimd \in {SimdKernels[i] : i \in 1..Len(SimdKernels)},
          coulombType \in {CoulombType[i] : i \in 1..Len(CoulombType)},
          ljCombinationRule \in {CombinationRule[i] : i \in 1..Len(CombinationRule)},
          useTabulatedEwaldCorr, ewaldCoeffPositive, simd, simd4xn, simd2xnn \in BOOLEAN :
          /\ ~simd => (~simd4xn /\ ~simd2xnn)
          /\ setup = [options |-> [nbnxmSimd |-> nbnxmSimd, coulombType |-> coulombType,
                                   ljCombinationRule |-> ljCombinationRule,
                                   useTabulatedEwaldCorr |-> useTabulatedEwaldCorr,
                                   ewaldCoeffPositive |-> ewaldCoeffPositive],
                      build |-> [GMX_SIMD |-> simd, GMX_NBNXN_SIMD_4XN |-> simd4xn,
                                 GMX_NBNXN_SIMD_2XNN |-> simd2xnn],
                      made |-> << >>, error |-> "none"]
    /\ KernelUnused /\ HaloUnused /\ EgrpUnused /\ EaUnused /\ PropagatorUnused

NextNonbondedSetup == CreateKernelSetupCPU \/ CreateInteractionConst \/ CreateNbnxmCPU

SpecNonbondedSetup == InitNonbondedSetup /\ [][NextNonbondedSetup]_vars

\* the diagnostics that name the invalid value
SimdDiagnostics == {"Need a valid kernel SIMD type", "The requested SIMD kernel was not set up at configuration time"}
CoulombDiagnostics == {"Unsupported electrostatic interaction"}

\* C13 (kernel type and Coulomb type): once a set-up function that reads
\* the SIMD kernel type or the Coulomb type has been called, an unsupported
\* value has ended the set-up with the diagnostic of that value.
InvalidKernelOrCoulombTypeIsReported ==
    /\ (/\ {"createKernelSetupCPU", "createNbnxmCPU"} \cap DOMAIN setup.made # {}
        /\ \/ setup.options.nbnxmSimd \in {"SimdAuto", "Count"}
           \/ (setup.options.nbnxmSimd # "SimdNo" /\ ~setup.build.GMX_SIMD)
           \/ (setup.options.nbnxmSimd = "Simd4XM" /\ ~setup.build.GMX_NBNXN_SIMD_4XN)
           \/ (setup.options.nbnxmSimd = "Simd2XMM" /\ ~setup.build.GMX_NBNXN_SIMD_2XNN))
       => setup.error \in SimdDiagnostics
    /\ ("createInteractionConst" \in DOMAIN setup.made /\ setup.options.coulombType = "Count")
       => setup.error \in CoulombDiagnostics

\* C13: no set-up function returns an object made from an invalid value:
\* an unsupported SIMD kernel type, an unsupported Coulomb type or an
\* invalid Lennard-Jones combination rule has been reported by an
\* exception when the function that reads it has been called.
InvalidSetupValueIsReported ==
    /\ InvalidKernelOrCoulombTypeIsReported
    /\ ("createNbnxmCPU" \in DOMAIN setup.made /\ setup.options.ljCombinationRule = "Count")
       => setup.error # "none"

-----------------------------------------------------------------------------
(* Decisions on the tasks to run on GPUs (src/src/gmxlib/maths.c) *)

TaskTarget == {"Auto", "Cpu", "Gpu"}
\* the -gputasks strings tried: none, one task, two tasks
UserGpuTaskAssignments == {<< >>, <<0>>, <<0, 1>>}

\* what a function does: it returns a value or it throws
NotCalled == [throws |-> "not called", message |-> "", returned |-> FALSE, value |-> FALSE, warned |-> FALSE]
Returns(value) == [throws |-> "none", message |-> "", returned |-> TRUE, value |-> value, warned |-> FALSE]
Throws(exception, message) == [throws |-> exception, message |-> message, returned |-> FALSE, value |-> FALSE, warned |-> FALSE]

decideWhetherToUseGpusForNonbonded(in) ==
    IF in.nonbondedTarget = "Cpu"
    THEN IF in.userGpuTaskAssignment # << >>
         THEN Throws("InconsistentInputError", "A GPU task assignment was specified, but nonbonded interactions were assigned to the CPU")
         ELSE Returns(FALSE)
    ELSE IF ~in.buildSupportsNonbondedOnGpu /\ in.nonbondedTarget = "Gpu"
    THEN Throws("InconsistentInputError", "built without GPU support")
    ELSE IF in.emulateGpuNonbonded
    THEN IF in.nonbondedTarget = "Gpu"
         THEN Throws("InconsistentInputError", "inconsistent with choosing emulation")
         ELSE IF in.userGpuTaskAssignment # << >>
         THEN Throws("InconsistentInputError", "GPU ID usage was specified, as was GPU emulation")
         ELSE Returns(FALSE)
    ELSE IF ~in.nonbondedOnGpuIsUseful
    THEN IF in.nonbondedTarget = "Gpu"
         THEN Throws("InconsistentInputError", "not supported for these simulation settings")
         ELSE Returns(FALSE)
    ELSE IF in.userGpuTaskAssignment # << >>
    THEN IF in.nonbondedTarget = "Auto"
         THEN Throws("InconsistentInputError", "When you use mdrun -gputasks, -nb and -ntmpi must be set")
         ELSE Returns(TRUE)
    ELSE IF in.nonbondedTarget = "Gpu"
    THEN Returns(TRUE)
    ELSE Returns(in.buildSupportsNonbondedOnGpu /\ in.gpusWereDetected)

decideWhetherToUseGpusForPmeFft(in) ==
    ~(in.pmeFftTarget = "Cpu" \/ (in.pmeFftTarget = "Auto" /\ in.c_gpuBuildSyclWithoutGpuFft))

\* the reasons why PME cannot run on a GPU
errorReasons(in) ==
    (IF ~in.useGpuForNonbonded THEN {"Nonbonded interactions must also run on GPUs."} ELSE {})
    \cup (IF ~in.pme_gpu_supports_build THEN {"build"} ELSE {})
    \cup (IF ~in.pme_gpu_supports_input THEN {"input"} ELSE {})
    \cup (IF ~decideWhetherToUseGpusForPmeFft(in) /\ ~in.pme_gpu_mixed_mode_supports_input
          THEN {"mixed mode input"} ELSE {})

\* canUseGpusForPme: <<return value, *errorMessage>>
canUseGpusForPme(in) ==
    IF in.pmeTarget = "Cpu" THEN <<FALSE, {}>>
    ELSE IF errorReasons(in) = {} THEN <<TRUE, {}>>
    ELSE IF in.pmeTarget = "Gpu" THEN <<FALSE, errorReasons(in)>>
    ELSE <<FALSE, {}>>

decideWhetherToUseGpusForPme(in) ==
    IF ~canUseGpusForPme(in)[1]
    THEN IF canUseGpusForPme(in)[2] # {}
         THEN Throws("InconsistentInputError", "Cannot compute PME interactions on a GPU")
         ELSE Returns(FALSE)
    ELSE IF in.pmeTarget = "Cpu"
    THEN IF in.userGpuTaskAssignment # << >>
         THEN Throws("InconsistentInputError", "A GPU task assignment was specified, but PME interactions were assigned to the CPU")
         ELSE Returns(FALSE)
    ELSE IF in.pmeTarget = "Gpu" /\ in.numRanksPerSimulation > 1 /\ in.numPmeRanksPerSimulation < 0
    THEN Throws("NotImplementedError", "the -npme option was not specified")
    ELSE IF in.userGpuTaskAssignment # << >>
    THEN IF in.pmeTarget = "Auto"
         THEN Throws("InconsistentInputError", "When you use mdrun -gputasks, all of -nb, -pme, and -ntmpi must be set")
         ELSE Returns(TRUE)
    ELSE IF in.pmeTarget = "Gpu" THEN Returns(TRUE)
    ELSE IF in.numRanksPerSimulation = 1 THEN Returns(in.gpusWereDetected)
    ELSE IF in.numPmeRanksPerSimulation = 1 THEN Returns(in.gpusWereDetected)
    ELSE Returns(FALSE)

\* the checks of decideWhetherToUseGpuForUpdate, in the order of the code:
\* <<the condition, what is appended to errorMessage>>
UpdateChecks(in) ==
    << <<in.isDomainDecomposition /\ in.hasAnyConstraints /\ ~in.useUpdateGroups, "Domain decomposition is only supported with constraints when update groups are used.">>,
       <<in.havePmeOnlyRank /\ in.pmeRunMode = "CPU", "With separate PME rank(s), PME must run on the GPU.">>,
       <<in.useMts, "Multiple time stepping is not supported.">>,
       <<in.eConstrAlgShake /\ in.hasAnyConstraints /\ in.haveConstr, "SHAKE constraints are not supported.">>,
       <<in.pmeRunMode \in {"CPU", "None"} /\ ~in.useGpuForNonbonded, "Either PME or short-ranged non-bonded interaction tasks must run on the GPU.">>,
       <<~in.gpusWereDetected, "Compatible GPUs must have been found.">>,
       <<~in.GMX_GPU_CUDA_OR_SYCL, "Only CUDA and SYCL builds are supported.">>,
       <<~in.eI_MD, "Only the md integrator is supported.">>,
       <<in.noseHoover, "Nose-Hoover temperature coupling is not supported.">>,
       <<~in.epcSupported, "Only Parrinello-Rahman, Berendsen, and C-rescale pressure coupling are supported.">>,
       <<in.acceleration, "Acceleration is not supported.">>,
       <<in.ewaldSurface, "Ewald surface correction is not supported.">>,
       <<in.haveVsites, "Virtual sites are not supported.">>,
       <<in.useEssentialDynamics, "Essential dynamics is not supported.">>,
       <<in.pullConstraint, "Constraints pulling is not supported.">>,
       <<in.doOrientationRestraints, "Orientation restraints are not supported.">>,
       <<in.fepPerturbed, "Free energy perturbation for mass and constraints are not supported.">>,
       <<in.haveShells, "Shells are not supported.">>,
       <<in.swapCoords, "Swapping the coordinates is not supported.">>,
       <<in.doRerun, "Re-run is not supported.">>,
       <<in.haveConstrNC, "Non-connecting constraints are not supported">>,
       <<~in.isNumCoupledConstraintsSupported, "The number of coupled constraints is higher than supported in the GPU LINCS code.">>,
       <<in.hasAnyConstraints /\ ~in.areConstraintsSupported, "Chosen GPU implementation does not support constraints.">>,
       <<in.haveFrozenAtoms, "Frozen atoms not supported.">> >>

\* errorMessage: the messages of the checks that fail
updateErrorMessage(in) ==
    {UpdateChecks(in)[i][2] : i \in {j \in 1..Len(UpdateChecks(in)) : UpdateChecks(in)[j][1]}}

decideWhetherToUseGpuForUpdate_ForcedAuto(in) ==
    IF in.updateTarget = "Cpu" \/ (in.updateTarget = "Auto" /\ ~in.forceGpuUpdateDefault)
    THEN Returns(FALSE)
    ELSE IF updateErrorMessage(in) # {} /\ in.updateTarget = "Gpu"
    THEN Throws("InconsistentInputError", "Update task on the GPU was required")
    ELSE Returns(TRUE)
decideWhetherToUseGpuForUpdate(in) ==
    IF in.updateTarget = "Cpu" \/ (in.updateTarget = "Auto" /\ ~in.forceGpuUpdateDefault)
    THEN Returns(FALSE)
    ELSE IF updateErrorMessage(in) # {}
    THEN IF in.updateTarget = "Auto" /\ in.forceGpuUpdateDefault
         THEN [Returns(FALSE) EXCEPT !.warned = TRUE]
         ELSE IF in.updateTarget = "Gpu"
         THEN Throws("InconsistentInputError", "Update task on the GPU was required")
         ELSE Returns(FALSE)
    ELSE Returns(in.updateTarget = "Gpu" \/ (in.updateTarget = "Auto" /\ in.forceGpuUpdateDefault))

DecideNonbonded ==
    /\ setup.fn = "decideWhetherToUseGpusForNonbonded"
    /\ setup.result = NotCalled
    /\ setup' = [setup EXCEPT !.result = decideWhetherToUseGpusForNonbonded(setup.in)]
    /\ UNCHANGED exceptSetup

DecidePme ==
    /\ setup.fn = "decideWhetherToUseGpusForPme"
    /\ setup.result = NotCalled
    /\ setup' = [setup EXCEPT !.result = decideWhetherToUseGpusForPme(setup.in)]
    /\ UNCHANGED exceptSetup

DecideUpdate ==
    /\ setup.fn = "decideWhetherToUseGpuForUpdate"
    /\ setup.result = NotCalled
    /\ setup' = [setup EXCEPT !.result = decideWhetherToUseGpuForUpdate(setup.in)]
    /\ UNCHANGED exceptSetup

NonbondedInputs ==
    [nonbondedTarget : TaskTarget, userGpuTaskAssignment : UserGpuTaskAssignments,
     emulateGpuNonbonded : BOOLEAN, buildSupportsNonbondedOnGpu : BOOLEAN,
     nonbondedOnGpuIsUseful : BOOLEAN, gpusWereDetected : BOOLEAN]

PmeInputs ==
    [useGpuForNonbonded : BOOLEAN, pmeTarget : TaskTarget, pmeFftTarget : TaskTarget,
     userGpuTaskAssignment : UserGpuTaskAssignments, pme_gpu_supports_build : BOOLEAN,
     pme_gpu_supports_input : BOOLEAN, pme_gpu_mixed_mode_supports_input : BOOLEAN,
     c_gpuBuildSyclWithoutGpuFft : BOOLEAN, numRanksPerSimulation : {1, 2},
     numPmeRanksPerSimulation : {-1, 0, 1}, gpusWereDetected : BOOLEAN]

\* a run for which the update can run on the GPU; the inputs tried differ
\* from it in at most two fields
SupportedUpdate ==
    [isDomainDecomposition |-> FALSE, hasAnyConstraints |-> FALSE, useUpdateGroups |-> FALSE,
     havePmeOnlyRank |-> FALSE, useMts |-> FALSE, eConstrAlgShake |-> TRUE, haveConstr |-> FALSE,
     useGpuForNonbonded |-> TRUE, gpusWereDetected |-> TRUE, GMX_GPU_CUDA_OR_SYCL |-> TRUE,
     eI_MD |-> TRUE, noseHoover |-> FALSE, epcSupported |-> TRUE, acceleration |-> FALSE,
     ewaldSurface |-> FALSE, haveVsites |-> FALSE, useEssentialDynamics |-> FALSE,
     pullConstraint |-> FALSE, doOrientationRestraints |-> FALSE, fepPerturbed |-> FALSE,
     haveShells |-> FALSE, swapCoords |-> FALSE, doRerun |-> FALSE, haveConstrNC |-> FALSE,
     isNumCoupledConstraintsSupported |-> TRUE, areConstraintsSupported |-> TRUE,
     haveFrozenAtoms |-> FALSE]

UpdateInputs ==
    {[updateTarget |-> target, forceGpuUpdateDefault |-> force, pmeRunMode |-> mode]
        @@ [field \in DOMAIN SupportedUpdate |-> IF field \in changed THEN ~SupportedUpdate[field]
                                                 ELSE SupportedUpdate[field]] :
        target \in TaskTarget, force \in BOOLEAN, mode \in {"None", "CPU", "GPU", "Mixed"},
        changed \in {{}} \cup {{a, b} : a, b \in DOMAIN SupportedUpdate}}

InitGpuDecisions ==
    /\ \/ \E in \in NonbondedInputs :
             setup = [fn |-> "decideWhetherToUseGpusForNonbonded", in |-> in, result |-> NotCalled]
       \/ \E in \in PmeInputs :
             setup = [fn |-> "decideWhetherToUseGpusForPme", in |-> in, result |-> NotCalled]
       \/ \E in \in UpdateInputs :
             setup = [fn |-> "decideWhetherToUseGpuForUpdate", in |-> in, result |-> NotCalled]
    /\ KernelUnused /\ HaloUnused /\ EgrpUnused /\ EaUnused /\ PropagatorUnused

NextGpuDecisions == DecideNonbonded \/ DecidePme \/ DecideUpdate

SpecGpuDecisions == InitGpuDecisions /\ [][NextGpuDecisions]_vars

\* C14: with a user GPU task assignment and the nonbonded target Auto or
\* Cpu, decideWhetherToUseGpusForNonbonded throws InconsistentInputError and
\* returns no value.
GpuTasksRequireNonbondedTarget ==
    (/\ setup.fn = "decideWhetherToUseGpusForNonbonded"
     /\ setup.result # NotCalled
     /\ setup.in.userGpuTaskAssignment # << >>
     /\ setup.in.nonbondedTarget \in {"Auto", "Cpu"})
    => (setup.result.throws = "InconsistentInputError" /\ ~setup.result.returned)

\* C15: with the PME target Cpu and a user GPU task assignment,
\* decideWhetherToUseGpusForPme throws the InconsistentInputError "A GPU
\* task assignment was specified, but PME interactions were assigned to the
\* CPU".
GpuTasksWithPmeOnCpuThrows ==
    (/\ setup.fn = "decideWhetherToUseGpusForPme"
     /\ setup.result # NotCalled
     /\ setup.in.pmeTarget = "Cpu"
     /\ setup.in.userGpuTaskAssignment # << >>)
    => /\ setup.result.throws = "InconsistentInputError"
       /\ setup.result.message = "A GPU task assignment was specified, but PME interactions were assigned to the CPU"

\* C16: while a condition that the GPU update does not support holds,
\* decideWhetherToUseGpuForUpdate does not return true: with the target Gpu
\* it throws InconsistentInputError, with the target Auto and the flag that
\* forces the GPU update it warns and returns false, with the target Cpu it
\* returns false.
UnsupportedUpdateNeverOnGpu ==
    (/\ setup.fn = "decideWhetherToUseGpuForUpdate"
     /\ setup.result # NotCalled
     /\ \E i \in 1..Len(UpdateChecks(setup.in)) : UpdateChecks(setup.in)[i][1])
    => /\ ~(setup.result.returned /\ setup.result.value)
       /\ setup.in.updateTarget = "Gpu" => setup.result.throws = "InconsistentInputError"
       /\ (setup.in.updateTarget = "Auto" /\ setup.in.forceGpuUpdateDefault)
             => (setup.result.returned /\ ~setup.result.value /\ setup.result.warned)
       /\ setup.in.updateTarget = "Cpu" => (setup.result.returned /\ ~setup.result.value)

\* the update was forced on the GPU by the flag, two conditions fail
ForcedUpdateRefused ==
    /\ setup.fn = "decideWhetherToUseGpuForUpdate"
    /\ setup.result # NotCalled
    /\ setup.in.updateTarget = "Auto" /\ setup.in.forceGpuUpdateDefault
    /\ Cardinality(updateErrorMessage(setup.in)) = 2
    /\ setup.result.warned

-----------------------------------------------------------------------------
(* Energy analysis: selection of the energy terms (select_energy.cpp) *)

\* lines read from the input before it ends
MaxLines == 2
\* tokens of one line
MaxTokens == 2
\* unsigned long is modelled with 16 bits
UlongBits == 16

\* strings are sequences of characters
Digits == <<"0", "1", "2", "3", "4", "5", "6", "7", "8", "9">>
IsDigit(ch) == \E i \in 1..Len(Digits) : Digits[i] = ch
DigitValue(ch) == (CHOOSE i \in 1..Len(Digits) : Digits[i] = ch) - 1

\* the lists of energy terms tried
EnergyNames ==
    { << <<"a", " ", "b">>, <<"B">>, <<"c", "1", "a">> >>,
      << <<"A", "b">>, <<"a", "b">> >> }

\* the tokens tried: numbers, names, and tokens that start as a number
SelectionTokens ==
    { <<"0">>, <<"1">>, <<"2">>, <<"3">>, <<"1", "2">>, <<"a">>, <<"b">>, <<"A", "B">>,
      <<"a", "-", "b">>, <<"z">>, <<"1", "a">>, <<"-", "1">> }

\* the lines tried: the tokens that splitString returns for them
SelectionLines ==
    {<< >>} \cup UNION {[1..n -> SelectionTokens] : n \in 1..MaxTokens}

\* std::toupper
toupper(ch) == IF ch = "a" THEN "A" ELSE IF ch = "b" THEN "B" ELSE IF ch = "c" THEN "C"
               ELSE IF ch = "z" THEN "Z" ELSE ch

my_equal(ch1, ch2) == toupper(ch1) = toupper(ch2)

\* position (from 0) of the first occurrence of str2 in str1 ignoring case,
\* or -1 if not found
ci_find_substr(str1, str2) ==
    IF \E i \in 0..(Len(str1) - Len(str2)) : \A k \in 1..Len(str2) : my_equal(str1[i + k], str2[k])
    THEN CHOOSE i \in 0..(Len(str1) - Len(str2)) :
            /\ \A k \in 1..Len(str2) : my_equal(str1[i + k], str2[k])
            /\ \A i2 \in 0..(i - 1) : \E k \in 1..Len(str2) : ~my_equal(str1[i2 + k], str2[k])
    ELSE -1

\* the names with dashes for blanks
InsertDashes(energyName) == [i \in 1..Len(energyName) |-> IF energyName[i] = " " THEN "-" ELSE energyName[i]]

\* std::strtoul(sub, &endptr, 10): an optional sign, then the longest run
\* of digits; [value, endptr (offset into sub), errno]
RECURSIVE DigitRun(_, _)
DigitRun(str, from) ==
    IF from <= Len(str) /\ IsDigit(str[from]) THEN 1 + DigitRun(str, from + 1) ELSE 0

RECURSIVE DecimalValue(_, _, _)
DecimalValue(str, from, n) ==
    IF n = 0 THEN 0 ELSE 10 * DecimalValue(str, from, n - 1) + DigitValue(str[from + n - 1])

strtoul(sub) ==
    LET signed == Len(sub) >= 1 /\ sub[1] \in {"-", "+"}
        first == IF signed THEN 2 ELSE 1
        n == DigitRun(sub, first)
        v == DecimalValue(sub, first, n)
    IN  IF n = 0 THEN [value |-> 0, endptr |-> 0, errno |-> "0"]
        ELSE IF v >= 2 ^ UlongBits THEN [value |-> 2 ^ UlongBits - 1, endptr |-> first - 1 + n, errno |-> "ERANGE"]
        ELSE IF signed /\ sub[1] = "-" THEN [value |-> (2 ^ UlongBits - v) % (2 ^ UlongBits), endptr |-> first - 1 + n, errno |-> "0"]
        ELSE [value |-> v, endptr |-> first - 1 + n, errno |-> "0"]

\* kk of a token that is not an integer: the first name that contains it
RECURSIVE FirstNameWith(_, _, _)
FirstNameWith(newnm, sub, kk) ==
    IF kk >= Len(newnm) THEN kk
    ELSE IF ci_find_substr(newnm[kk + 1], sub) >= 0 THEN kk
    ELSE FirstNameWith(newnm, sub, kk + 1)

\* the body of the loop over the tokens of a line, for one token:
\* [set, done] after it
SelectToken(newnm, st, sub) ==
    LET r == strtoul(sub)
        isName == r.errno = "ERANGE" \/ r.errno = "EINVAL" \/ r.endptr = 0
        kk == IF isName THEN FirstNameWith(newnm, sub, 0)
              ELSE IF r.value = 0 THEN 0 ELSE r.value - 1
        done == st.done \/ (~isName /\ r.value = 0)
    IN  IF done THEN [set |-> st.set, done |-> TRUE]
        ELSE IF kk < Len(newnm) THEN [set |-> Append(st.set, kk), done |-> FALSE]
        ELSE [set |-> st.set, done |-> TRUE]

RECURSIVE SelectTokens(_, _, _)
SelectTokens(newnm, st, subs) ==
    IF subs = << >> THEN st
    ELSE SelectTokens(newnm, SelectToken(newnm, st, Head(subs)), Tail(subs))

\* std::sort
RECURSIVE std_sort(_)
std_sort(sq) ==
    IF sq = << >> THEN << >>
    ELSE LET m == CHOOSE i \in 1..Len(sq) : \A j \in 1..Len(sq) : sq[i] <= sq[j]
         IN  <<sq[m]>> \o std_sort(SubSeq(sq, 1, m - 1) \o SubSeq(sq, m + 1, Len(sq)))

\* one pass of the loop over the lines; when the loop ends the set is
\* sorted and select_energies returns
ReadLine ==
    /\ ea.pc = "reading"
    /\ Len(ea.lines) < MaxLines
    /\ \E line \in SelectionLines :
          LET st == IF line = << >> THEN [set |-> ea.set, done |-> TRUE]
                    ELSE SelectTokens(ea.newnm, [set |-> ea.set, done |-> FALSE], line)
          IN  ea' = [ea EXCEPT !.lines = Append(@, line),
                               !.set = IF st.done THEN std_sort(st.set) ELSE st.set,
                               !.pc = IF st.done THEN "returned" ELSE "reading"]
    /\ UNCHANGED exceptEa

\* readLine returns false: the input has ended
EndOfInput ==
    /\ ea.pc = "reading"
    /\ ea' = [ea EXCEPT !.set = std_sort(@), !.pc = "returned"]
    /\ UNCHANGED exceptEa

InitSelectEnergies ==
    /\ \E eNU \in EnergyNames :
          ea = [eNU |-> eNU, newnm |-> [i \in 1..Len(eNU) |-> InsertDashes(eNU[i])],
                lines |-> << >>, set |-> << >>, pc |-> "reading"]
    /\ KernelUnused /\ HaloUnused /\ EgrpUnused /\ SetupUnused /\ PropagatorUnused

NextSelectEnergies == ReadLine \/ EndOfInput

SpecSelectEnergies == InitSelectEnergies /\ [][NextSelectEnergies]_vars

\* what the selection is said to be
RECURSIVE Flatten(_)
Flatten(lines) ==
    IF lines = << >> THEN << >>
    ELSE (IF Head(lines) = << >> THEN << <<"\n">> >> ELSE Head(lines)) \o Flatten(Tail(lines))

\* a number is a token of digits; any other token is a name
IsNumber(token) == \A i \in 1..Len(token) : IsDigit(token[i])

\* the index that a token selects, or -1 for a terminator
IndexOf(names, token) ==
    IF token = <<"\n">> THEN -1
    ELSE IF IsNumber(token)
    THEN IF DecimalValue(token, 1, Len(token)) - 1 < Len(names)
         THEN DecimalValue(token, 1, Len(token)) - 1 ELSE -1
    ELSE IF \E i \in 1..Len(names) : ci_find_substr(names[i], token) >= 0
    THEN (CHOOSE i \in 1..Len(names) :
             /\ ci_find_substr(names[i], token) >= 0
             /\ \A j \in 1..(i - 1) : ci_find_substr(names[j], token) < 0) - 1
    ELSE -1

RECURSIVE BeforeTerminator(_, _)
BeforeTerminator(names, tokens) ==
    IF tokens = << >> \/ IndexOf(names, Head(tokens)) < 0 THEN << >>
    ELSE <<IndexOf(names, Head(tokens))>> \o BeforeTerminator(names, Tail(tokens))

\* C17: when select_energies returns, the set is the sorted list of the
\* indices of the tokens read before the first terminator (a token 0, an
\* empty line, an invalid selection or the end of the input): a number n
\* gives n - 1, a name the first term that contains it ignoring case; the
\* indices are at least 0 and below the number of terms.
SelectionIsTokensBeforeTerminator ==
    ea.pc = "returned"
    => /\ ea.set = std_sort(BeforeTerminator(ea.newnm, Flatten(ea.lines)))
       /\ \A i \in 1..Len(ea.set) : ea.set[i] >= 0 /\ ea.set[i] < Len(ea.eNU)
       /\ \A i \in 1..(Len(ea.set) - 1) : ea.set[i] <= ea.set[i + 1]

-----------------------------------------------------------------------------
(* Energy analysis: the frames handed to the analysis (energyanalysisrunner.cpp) *)

\* frames of the energy file
MaxFrames == 4
\* largest value of the -b, -e and -dt options
MaxTime == 3

\* RunnerModule::checkTime with the options -b (t0_) and -e (t1_)
checkTime(r, t) ==
    IF r.t0_ >= 0 /\ t < r.t0_ THEN -1
    ELSE IF r.t1_ >= 0 /\ t > r.t1_ THEN 1
    ELSE 0

\* one pass of the loop of RunnerModule::run: do_enx reads the next frame,
\* which is analysed if checkTime returns 0
ReadFrame ==
    /\ ea.pc = "run"
    /\ ea.nread < Len(ea.file)
    /\ ea' = [ea EXCEPT !.nread = @ + 1,
                        !.analyzed = IF checkTime(ea, ea.file[ea.nread + 1]) = 0
                                     THEN Append(@, ea.file[ea.nread + 1]) ELSE @]
    /\ UNCHANGED exceptEa

\* do_enx returns false: no frame is left
EndOfFile ==
    /\ ea.pc = "run"
    /\ ea.nread = Len(ea.file)
    /\ ea' = [ea EXCEPT !.pc = "done"]
    /\ UNCHANGED exceptEa

\* the constructor sets t0_ = t1_ = -1 and tDelta_ = 0, initOptions stores
\* the options -b, -e and -dt over them; the file holds frames at equally
\* spaced times
InitEnergyRunner ==
    /\ \E t0 \in {-1} \cup 0..MaxTime, t1 \in {-1} \cup 0..MaxTime, tDelta \in 0..MaxTime,
          start \in 0..1, nframes \in 1..MaxFrames :
          ea = [t0_ |-> t0, t1_ |-> t1, tDelta_ |-> tDelta,
                file |-> [i \in 1..nframes |-> start + i - 1],
                nread |-> 0, analyzed |-> << >>, pc |-> "run"]
    /\ KernelUnused /\ HaloUnused /\ EgrpUnused /\ SetupUnused /\ PropagatorUnused

NextEnergyRunner == ReadFrame \/ EndOfFile

SpecEnergyRunner == InitEnergyRunner /\ [][NextEnergyRunner]_vars

\* C18: with the option -dt set, a frame is handed to analyzeFrame only if
\* its time is a multiple of dt away from the time of the first frame
\* analysed.
OnlyFramesOnStrideAnalyzed ==
    ea.tDelta_ > 0
    => \A i \in 1..Len(ea.analyzed) : (ea.analyzed[i] - ea.analyzed[1]) % ea.tDelta_ = 0

-----------------------------------------------------------------------------
(* Propagator of the modular simulator: Propagator::run                     *)
(* (src/src/gromacs/modularsimulator/propagator.cpp)                        *)

\* enum class IntegrationStep: the algorithms the class is instantiated for
IntegrationStep == {"PositionsOnly", "VelocitiesOnly", "LeapFrog", "VelocityVerletPositionsAndVelocities"}

\* the largest number of OpenMP threads and of home atoms of the model
MaxThreads == 3
MaxAtoms == 4

\* the indices of the padded position and velocity arrays
AtomSlots == 0..MaxAtoms

\* the static partitions of the home atoms into one range of consecutive
\* atoms per thread, as the boundaries between the ranges
StaticPartitions(nth, homenr) ==
    { c \in [0..nth -> 0..homenr] :
        c[0] = 0 /\ c[nth] = homenr /\ \A t \in 0..(nth - 1) : c[t] <= c[t + 1] }

\* getThreadAtomRange(nth, th, homenr, &start_th, &end_th)
getThreadAtomRange(p, th) ==
    [start_th |-> p.partition[th], end_th |-> p.partition[th + 1]]

\* for (int a = start_th; a < end_th; a++): the atoms a thread loops over
threadAtoms_Inclusive(range) == range.start_th..range.end_th
threadAtoms(range) == range.start_th..(range.end_th - 1)

\* updateVelocities writes v[a], updatePositions writes xprime[a]; the model
\* keeps the threads that wrote an element, in the order of the writes
updateVelocities(p, th, a) == [p EXCEPT !.v[a] = Append(@, th)]
updatePositions(p, th, a) == [p EXCEPT !.xp[a] = Append(@, th)]
updateVelocitiesAndPositions(p, th, a) == updatePositions(updateVelocities(p, th, a), th, a)

\* one step of iteration th of the parallel loop of run(): the call of
\* getThreadAtomRange, one pass of the loop over the atoms, or its end;
\* updated is the state after the update of atom a[th] by the algorithm
threadIteration(p, th, updated) ==
    IF p.pc[th] = "range"
    THEN [p EXCEPT !.range[th] = getThreadAtomRange(p, th),
                   !.a[th] = getThreadAtomRange(p, th).start_th,
                   !.pc[th] = "atoms"]
    ELSE IF p.a[th] \in threadAtoms(p.range[th])
    THEN [updated EXCEPT !.a[th] = @ + 1]
    ELSE [p EXCEPT !.pc[th] = "done"]

\* Propagator<IntegrationStep::PositionsOnly>::run
RunPositionsOnly(th) ==
    /\ propagator.algorithm = "PositionsOnly"
    /\ th < propagator.nth
    /\ propagator.pc[th] # "done"
    /\ propagator' = threadIteration(propagator, th, updatePositions(propagator, th, propagator.a[th]))
    /\ UNCHANGED exceptPropagator

\* Propagator<IntegrationStep::VelocitiesOnly>::run
RunVelocitiesOnly(th) ==
    /\ propagator.algorithm = "VelocitiesOnly"
    /\ th < propagator.nth
    /\ propagator.pc[th] # "done"
    /\ propagator' = threadIteration(propagator, th, updateVelocities(propagator, th, propagator.a[th]))
    /\ UNCHANGED exceptPropagator

\* Propagator<IntegrationStep::LeapFrog>::run
RunLeapFrog(th) ==
    /\ propagator.algorithm = "LeapFrog"
    /\ th < propagator.nth
    /\ propagator.pc[th] # "done"
    /\ propagator' = threadIteration(propagator, th, updateVelocitiesAndPositions(propagator, th, propagator.a[th]))
    /\ UNCHANGED exceptPropagator

\* Propagator<IntegrationStep::VelocityVerletPositionsAndVelocities>::run
RunVelocityVerletPositionsAndVelocities(th) ==
    /\ propagator.algorithm = "VelocityVerletPositionsAndVelocities"
    /\ th < propagator.nth
    /\ propagator.pc[th] # "done"
    /\ propagator' = threadIteration(propagator, th, updateVelocitiesAndPositions(propagator, th, propagator.a[th]))
    /\ UNCHANGED exceptPropagator

\* the state at the parallel loop of run(): nth iterations, none started
InitPropagatorRun ==
    /\ \E algorithm \in IntegrationStep, nth \in 1..MaxThreads, homenr \in 0..MaxAtoms :
        \E partition \in StaticPartitions(nth, homenr) :
           propagator = [algorithm |-> algorithm, nth |-> nth, homenr |-> homenr,
                         partition |-> partition,
                         pc |-> [th \in 0..(nth - 1) |-> "range"],
                         range |-> [th \in 0..(nth - 1) |-> [start_th |-> 0, end_th |-> 0]],
                         a |-> [th \in 0..(nth - 1) |-> 0],
                         v |-> [a \in AtomSlots |-> <<>>],
                         xp |-> [a \in AtomSlots |-> <<>>]]
    /\ KernelUnused /\ HaloUnused /\ EgrpUnused /\ SetupUnused /\ EaUnused

NextPropagatorRun ==
    \E th \in 0..(MaxThreads - 1) :
       \/ RunPositionsOnly(th)
       \/ RunVelocitiesOnly(th)
       \/ RunLeapFrog(th)
       \/ RunVelocityVerletPositionsAndVelocities(th)

SpecPropagatorRun == InitPropagatorRun /\ [][NextPropagatorRun]_vars

\* the threads that have updated atom a
AtomWriters(p, a) == { p.v[a][i] : i \in DOMAIN p.v[a] } \cup { p.xp[a][i] : i \in DOMAIN p.xp[a] }

\* the number of updates an atom gets from one pass of the loop of the algorithm
UpdatedOnce(p, a) ==
    /\ Len(p.v[a]) = (IF p.algorithm = "PositionsOnly" THEN 0 ELSE 1)
    /\ Len(p.xp[a]) = (IF p.algorithm = "VelocitiesOnly" THEN 0 ELSE 1)

PropagatorRunDone == \A th \in DOMAIN propagator.pc : propagator.pc[th] = "done"

\* C22: in every Propagator::run variant no two threads ever write the same
\* atom, and when the parallel loop has ended each home atom in [0, homenr)
\* has been updated exactly once, by one thread: the ranges of the threads
\* are pairwise disjoint and together cover the home atoms.
EachHomeAtomUpdatedByOneThread ==
    /\ \A a \in AtomSlots : Cardinality(AtomWriters(propagator, a)) <= 1
    /\ PropagatorRunDone =>
          \A a \in 0..(propagator.homenr - 1) :
             /\ Cardinality(AtomWriters(propagator, a)) = 1
             /\ UpdatedOnce(propagator, a)

\* the loop has ended after three threads have each updated a home atom
ThreeThreadsUpdatedAtoms ==
    /\ PropagatorRunDone
    /\ propagator.algorithm = "LeapFrog"
    /\ propagator.homenr = MaxAtoms
    /\ Cardinality(UNION { AtomWriters(propagator, a) : a \in AtomSlots }) = 3

-----------------------------------------------------------------------------
(* Propagator of the modular simulator: Propagator::scheduleTask and the    *)
(* callbacks of the thermostat and the barostat                              *)

\* the largest step, number of scheduleTask calls and number of velocity
\* scaling variables of the model
MaxStep == 1
MaxScheduled == 2
MaxScalingVariables == 2

Steps == 0..MaxStep

\* the lambda that scheduleTask hands to registerRunFunction: run() with the
\* template arguments NumVelocityScalingValues (None, Single, Multiple) and
\* ParrinelloRahmanVelocityScaling (No, Diagonal, Full)
RunFunction(numVelocityScalingValues, parrinelloRahmanVelocityScaling) ==
    [numVelocityScalingValues |-> numVelocityScalingValues,
     parrinelloRahmanVelocityScaling |-> parrinelloRahmanVelocityScaling]

\* Propagator::scheduleTask: the run functions it registers, in order
scheduleTask_GroupScalingEveryStep(p, step) ==
    LET doParrinelloRahmanThisStep == (step = p.scalingStepPR_)
        pr == IF doParrinelloRahmanThisStep THEN "Full" ELSE "No"
    IN  IF p.doSingleVelocityScaling_ /\ step = p.scalingStepVelocity_
        THEN << RunFunction("Single", pr) >>
        ELSE IF p.doGroupVelocityScaling_
        THEN << RunFunction("Multiple", pr) >>
        ELSE << RunFunction("None", pr) >>
scheduleTask(p, step) ==
    LET doSingleVScalingThisStep == p.doSingleVelocityScaling_ /\ step = p.scalingStepVelocity_
        doGroupVScalingThisStep == p.doGroupVelocityScaling_ /\ step = p.scalingStepVelocity_
        doParrinelloRahmanThisStep == (step = p.scalingStepPR_)
    IN  IF doSingleVScalingThisStep
        THEN IF doParrinelloRahmanThisStep
             THEN << RunFunction("Single", "Full") >>
             ELSE << RunFunction("Single", "No") >>
        ELSE IF doGroupVScalingThisStep
        THEN IF doParrinelloRahmanThisStep
             THEN << RunFunction("Multiple", "Full") >>
             ELSE << RunFunction("Multiple", "No") >>
        ELSE IF doParrinelloRahmanThisStep
             THEN << RunFunction("None", "Full") >>
             ELSE << RunFunction("None", "No") >>

\* the simulator calls scheduleTask for a step; registerRunFunction appends
\* the function to the task list
ScheduleTask(step) ==
    /\ propagator.pc = "running"
    /\ Len(propagator.registered) < MaxScheduled
    /\ propagator' = [propagator EXCEPT
          !.scheduled = Append(@, step),
          !.registered = @ \o scheduleTask(propagator, step)]
    /\ UNCHANGED exceptPropagator

\* Propagator::setNumVelocityScalingVariables: gmx_fatal for PositionsOnly;
\* GMX_ASSERT stops a build with assertions when the number was set before
SetNumVelocityScalingVariables(numVelocityScalingVariables) ==
    /\ propagator.pc = "running"
    /\ propagator' =
          IF propagator.algorithm = "PositionsOnly"
          THEN [propagator EXCEPT !.pc = "fatal"]
          ELSE IF propagator.assertions /\ propagator.velocityScaling_ # <<>>
          THEN [propagator EXCEPT !.pc = "assertion failed"]
          ELSE [propagator EXCEPT
                  !.velocityScaling_ =
                      [i \in 1..numVelocityScalingVariables |->
                          IF i \in DOMAIN propagator.velocityScaling_
                          THEN propagator.velocityScaling_[i] ELSE 1],
                  !.doSingleVelocityScaling_ = (numVelocityScalingVariables = 1),
                  !.doGroupVelocityScaling_ = (numVelocityScalingVariables > 1)]
    /\ UNCHANGED exceptPropagator

\* Propagator::velocityScalingCallback: hands out the callback, or gmx_fatal
VelocityScalingCallback ==
    /\ propagator.pc = "running"
    /\ ~propagator.hasVelocityScalingCallback
    /\ propagator' =
          IF propagator.algorithm = "PositionsOnly"
          THEN [propagator EXCEPT !.pc = "fatal"]
          ELSE [propagator EXCEPT !.hasVelocityScalingCallback = TRUE]
    /\ UNCHANGED exceptPropagator

\* the callback itself: [this](Step step) { scalingStepVelocity_ = step; }
CallVelocityScalingCallback(step) ==
    /\ propagator.pc = "running"
    /\ propagator.hasVelocityScalingCallback
    /\ propagator' = [propagator EXCEPT !.scalingStepVelocity_ = step,
                                        !.announcedVelocityScaling = {step}]
    /\ UNCHANGED exceptPropagator

\* Propagator::prScalingCallback: hands out the callback; GMX_RELEASE_ASSERT
\* stops every build for PositionsOnly
PrScalingCallback ==
    /\ propagator.pc = "running"
    /\ ~propagator.hasPrScalingCallback
    /\ propagator' =
          IF propagator.algorithm = "PositionsOnly"
          THEN [propagator EXCEPT !.pc = "assertion failed"]
          ELSE [propagator EXCEPT !.hasPrScalingCallback = TRUE]
    /\ UNCHANGED exceptPropagator

\* the callback itself: [this](Step step) { scalingStepPR_ = step; }
CallPrScalingCallback(step) ==
    /\ propagator.pc = "running"
    /\ propagator.hasPrScalingCallback
    /\ propagator' = [propagator EXCEPT !.scalingStepPR_ = step,
                                        !.announcedPrScaling = {step}]
    /\ UNCHANGED exceptPropagator

\* Propagator::Propagator: the state after construction
InitPropagatorSchedule ==
    /\ \E algorithm \in IntegrationStep, assertions \in BOOLEAN :
          propagator = [algorithm |-> algorithm, assertions |-> assertions,
                        pc |-> "running",
                        velocityScaling_ |-> <<>>,
                        doSingleVelocityScaling_ |-> FALSE,
                        doGroupVelocityScaling_ |-> FALSE,
                        scalingStepVelocity_ |-> -1,
                        scalingStepPR_ |-> -1,
                        hasVelocityScalingCallback |-> FALSE,
                        hasPrScalingCallback |-> FALSE,
                        announcedVelocityScaling |-> {},
                        announcedPrScaling |-> {},
                        scheduled |-> <<>>,
                        registered |-> <<>>]
    /\ KernelUnused /\ HaloUnused /\ EgrpUnused /\ SetupUnused /\ EaUnused

NextPropagatorSchedule ==
    \/ \E step \in Steps : ScheduleTask(step)
    \/ \E n \in 0..MaxScalingVariables : SetNumVelocityScalingVariables(n)
    \/ VelocityScalingCallback
    \/ \E step \in Steps : CallVelocityScalingCallback(step)
    \/ PrScalingCallback
    \/ \E step \in Steps : CallPrScalingCallback(step)

SpecPropagatorSchedule == InitPropagatorSchedule /\ [][NextPropagatorSchedule]_vars

\* the run function is a velocity-scaling variant, a Parrinello-Rahman variant
IsVelocityScalingVariant(fn) == fn.numVelocityScalingValues # "None"
IsParrinelloRahmanVariant(fn) == fn.parrinelloRahmanVelocityScaling # "No"

\* the functions that the scheduleTask call of this step has registered
RegisteredByCall(p, after) == SubSeq(after.registered, Len(p.registered) + 1, Len(after.registered))

\* what a scheduleTask call for a step has to register in the state p
RegistersTheVariantOfTheStep(p, after, step) ==
    /\ Len(RegisteredByCall(p, after)) = 1
    /\ IsVelocityScalingVariant(RegisteredByCall(p, after)[1])
          <=> (p.velocityScaling_ # <<>> /\ step \in p.announcedVelocityScaling)
    /\ IsParrinelloRahmanVariant(RegisteredByCall(p, after)[1])
          <=> (step \in p.announcedPrScaling)

=============================================================================
